---- MODULE Spec2Model ----
(***************************************************************************)
(* A model of the ticker server's resolution pipeline:                     *)
(*   app/services/cache.py    CacheService (TTL cache, lazy eviction)       *)
(*   app/services/ticker.py   TickerService (resolve, provider chain,       *)
(*                            enrichment, clear_cache)                      *)
(*   app/clients/*.py         the three provider adapters                   *)
(*   app/models/ticker.py     the response models                           *)
(*   app/core/dependencies.py the wiring (TICKER_MAPPING, TTL, API key)     *)
(*                                                                         *)
(* Python values are written as strings holding their repr ("None",        *)
(* "190.12", "0"); a dict is a function from its keys to such strings; the  *)
(* object None returned in place of a dict is the empty function, which,    *)
(* like None, is falsy.                                                     *)
(***************************************************************************)
EXTENDS Integers, Sequences, FiniteSets, TLC

VARIABLES
    _cache,          \* CacheService._cache: key -> [data, timestamp]
    now,             \* datetime.utcnow(), in seconds
    ticks,           \* how many times the clock has advanced
    lastCacheOp,     \* the last direct CacheService call and what it returned
    stored,          \* per key, what was last set and when (none once deleted)
    polygon_api_key, \* os.getenv("POLYGON_API_KEY", "")
    req,             \* per in-flight request: the coroutine's locals and position
    running,         \* the coroutine the event loop is running (0: none)
    started,         \* how many service invocations have been started
    lastStep,        \* what the last step of the service was
    lastCall,        \* the last direct adapter call and what it ended in
    store_fails,     \* whether an operation on the dict behind the cache raises
    lastResponse,    \* the last direct endpoint call and the HTTP response to it
    legacy,          \* app/main.py: its module-level cache and its last call
    fetched          \* per key, when the price in its entry came from a provider

vars == <<_cache, now, ticks, lastCacheOp, stored, polygon_api_key, req, running,
          started, lastStep, lastCall, store_fails, lastResponse, legacy, fetched>>

cacheVars == <<_cache, now, ticks, lastCacheOp, stored>>
serviceVars ==
    <<polygon_api_key, req, running, started, lastStep, lastCall, store_fails,
      lastResponse, legacy, fetched>>

----------------------------------------------------------------------------
(* Bounds of the model *)

MaxTicks == 2
\* requests started in a run of Spec, of SpecSeq
MaxStarted == 1
MaxSeqStarted == 2
\* direct CacheService calls in a run of SpecCache
MaxCacheOps == 4

(* Program constants *)

ttl_seconds == 300

----------------------------------------------------------------------------
(* Python values *)

None == <<>>

Truthy(d) == DOMAIN d # {}

\* {**a, **b}
Merge(a, b) ==
    [k \in (DOMAIN a) \cup (DOMAIN b) |-> IF k \in DOMAIN b THEN b[k] ELSE a[k]]

\* d.pop(key, None) on the dict itself
Without(d, key) == [k \in (DOMAIN d) \ {key} |-> d[k]]

----------------------------------------------------------------------------
(* app/services/cache.py *)

\* _is_valid mutated: an entry exactly ttl old still counts as valid
is_valid_inclusive(cache_entry, t) ==
    /\ Truthy(cache_entry)
    /\ t - cache_entry.timestamp <= ttl_seconds

\* _is_valid mutated: an entry never expires
is_valid_forever(cache_entry, t) == Truthy(cache_entry)

_is_valid(cache_entry, t) ==
    /\ Truthy(cache_entry)
    /\ t - cache_entry.timestamp < ttl_seconds

\* CacheService.get: which of its three branches is taken
CacheGetBranch(c, key, t) ==
    IF key \in DOMAIN c /\ _is_valid(c[key], t) THEN "hit"
    ELSE IF key \in DOMAIN c THEN "expired"
    ELSE "miss"

\* CacheService.get: the value returned
CacheGet(c, key, t) ==
    IF CacheGetBranch(c, key, t) = "hit" THEN c[key].data ELSE None

\* CacheService.get with the lazy eviction left out
CacheAfterGet_no_eviction(c, key, t) == c

\* CacheService.get mutated: every expired entry is popped, not only the one
\* under the key
CacheAfterGet_sweep(c, key, t) ==
    [k \in {j \in DOMAIN c : _is_valid(c[j], t)} |-> c[k]]

\* CacheService.get: the store afterwards (an expired entry is popped)
CacheAfterGet(c, key, t) ==
    IF CacheGetBranch(c, key, t) = "expired" THEN Without(c, key) ELSE c

\* CacheService.set mutated: an existing entry keeps its old timestamp
CacheSet_keep_timestamp(c, key, data, t) ==
    [k \in (DOMAIN c) \cup {key} |->
        IF k = key
        THEN [data |-> data,
              timestamp |-> IF key \in DOMAIN c THEN c[key].timestamp ELSE t]
        ELSE c[k]]

\* CacheService.set mutated: an existing entry is left as it is
CacheSet_if_absent(c, key, data, t) ==
    [k \in (DOMAIN c) \cup {key} |->
        IF k \in DOMAIN c THEN c[k] ELSE [data |-> data, timestamp |-> t]]

\* CacheService.set mutated: an existing entry is updated field by field,
\* and only price and source are
CacheSet_update_in_place(c, key, data, t) ==
    [k \in (DOMAIN c) \cup {key} |->
        IF k # key THEN c[k]
        ELSE IF key \in DOMAIN c /\ Truthy(c[key].data) /\ Truthy(data)
        THEN [data |-> [f \in DOMAIN c[key].data |->
                           IF f \in {"price", "source"} /\ f \in DOMAIN data
                           THEN data[f] ELSE c[key].data[f]],
              timestamp |-> t]
        ELSE [data |-> data, timestamp |-> t]]

\* CacheService.set
CacheSet(c, key, data, t) ==
    [k \in (DOMAIN c) \cup {key} |->
        IF k = key THEN [data |-> data, timestamp |-> t] ELSE c[k]]

\* CacheService.delete: the store afterwards, and the bool returned
CacheDelete(c, key) == IF key \in DOMAIN c THEN Without(c, key) ELSE c

CacheDeleteResult(c, key) == key \in DOMAIN c

\* CacheService.clear mutated: only the price entries are dropped
CacheClear_prices_only(c) ==
    [k \in {j \in DOMAIN c : j = "info_AAPL"} |-> c[k]]

\* CacheService.clear mutated: the price entry of gold is kept
CacheClear_keep_gold(c) ==
    [k \in {j \in DOMAIN c : j = "price_XAU"} |-> c[k]]

\* CacheService.clear
CacheClear(c) == <<>>

----------------------------------------------------------------------------
(* Strings: str.lower(), str.upper() and the f-strings, on the tickers used *)

Tickers == {"gold", "GOLD", "Gold", "XAU", "xau", "AAPL", "aapl"}

lower(s) ==
    CASE s = "gold" -> "gold"
      [] s = "GOLD" -> "gold"
      [] s = "Gold" -> "gold"
      [] s = "XAU"  -> "xau"
      [] s = "xau"  -> "xau"
      [] s = "AAPL" -> "aapl"
      [] s = "aapl" -> "aapl"
      [] OTHER      -> s

upper(s) ==
    CASE s = "gold" -> "GOLD"
      [] s = "GOLD" -> "GOLD"
      [] s = "Gold" -> "GOLD"
      [] s = "XAU"  -> "XAU"
      [] s = "xau"  -> "XAU"
      [] s = "AAPL" -> "AAPL"
      [] s = "aapl" -> "AAPL"
      [] OTHER      -> s

\* the prices an upstream may report
Prices == {"190.12", "2031.5"}

----------------------------------------------------------------------------
(* app/core/dependencies.py *)

TICKER_MAPPING == [gold |-> "XAU"]

\* TickerService.polygon_client is not None
\* (get_ticker_service passes the key or None; __init__ builds the client
\*  only for a truthy key)
polygon_client_always == TRUE

polygon_client == polygon_api_key # ""

----------------------------------------------------------------------------
(* app/models/ticker.py *)

QuoteFields ==
    {"symbol", "price", "open", "high", "low", "volume", "source",
     "timestamp", "currency"}

QuoteDefault(f) == IF f = "currency" THEN "USD" ELSE "None"

\* TickerPriceResponse(**data), and its .dict(): the declared fields, each
\* from data or else its default; keys that are no field are ignored
TickerPriceResponse(data) ==
    [f \in QuoteFields |-> IF f \in DOMAIN data THEN data[f] ELSE QuoteDefault(f)]

\* a value that is no int and that pydantic cannot make one (a string that
\* is no number)
NotAnInt == "'n/a'"

\* whether TickerPriceResponse(**data) validates: the adapters build symbol,
\* source and, with float(), the prices themselves; volume and timestamp are
\* Optional[int]
QuoteValidates(data) ==
    \A f \in {"volume", "timestamp"} \cap DOMAIN data : data[f] # NotAnInt

InfoFields ==
    {"symbol", "price", "current_price", "open", "high", "low", "volume",
     "long_name", "industry", "sector", "market_cap", "employees", "city",
     "state", "country", "website", "source", "timestamp", "currency",
     "commodity", "currency_pair"}

InfoAlias(f) ==
    CASE f = "current_price" -> "currentPrice"
      [] f = "long_name"     -> "longName"
      [] f = "market_cap"    -> "marketCap"
      [] f = "currency_pair" -> "currencyPair"
      [] OTHER               -> f

\* TickerInfoResponse(**data): a field is read under its alias, else under
\* its own name (allow_population_by_field_name), else takes its default
TickerInfoResponse(data) ==
    [f \in InfoFields |->
        IF InfoAlias(f) \in DOMAIN data THEN data[InfoAlias(f)]
        ELSE IF f \in DOMAIN data THEN data[f]
        ELSE QuoteDefault(f)]

----------------------------------------------------------------------------
(* app/clients: what an adapter call ends in *)

Data(d) == [kind |-> "data", data |-> d, source |-> ""]
NoData == [kind |-> "none", data |-> None, source |-> ""]
\* _handle_error mutated: the error does not name the adapter
handle_error_unnamed(name) == [kind |-> "error", data |-> None, source |-> ""]

\* BaseAPIClient._handle_error: raise ExternalAPIError(source=self.name)
_handle_error(name) == [kind |-> "error", data |-> None, source |-> name]

(* app/clients/coinbase.py *)

\* what the exchange-rates request ends in: a timeout, a connection error, a
\* non-200 status, a 200 body that is no JSON, or a 200 body and the USD rate
\* in it ("None": no USD rate)
CoinbaseResponses ==
    {[kind |-> "timeout", usd |-> "None"],
     [kind |-> "connect", usd |-> "None"],
     [kind |-> "status", usd |-> "None"],
     [kind |-> "bad_json", usd |-> "None"],
     [kind |-> "body", usd |-> "None"]}
    \cup {[kind |-> "body", usd |-> p] : p \in Prices}

\* CoinbaseClient.get_ticker_data mutated: only the price is filled in
CoinbaseClient_price_only(symbol, resp) ==
    IF upper(symbol) # "XAU" THEN NoData
    ELSE IF resp.kind \in {"timeout", "connect", "bad_json"}
    THEN _handle_error("Coinbase")
    ELSE IF resp.kind = "body" /\ resp.usd # "None"
    THEN Data([symbol |-> "XAU", price |-> resp.usd, volume |-> "0",
               source |-> "coinbase_gold", currency |-> "USD",
               commodity |-> "gold"])
    ELSE NoData

CoinbaseClient_get_ticker_data(symbol, resp) ==
    IF upper(symbol) # "XAU" THEN NoData
    ELSE IF resp.kind \in {"timeout", "connect", "bad_json"}
    THEN _handle_error("Coinbase")
    ELSE IF resp.kind = "body" /\ resp.usd # "None"
    THEN Data([symbol |-> "XAU", price |-> resp.usd, open |-> resp.usd,
               high |-> resp.usd, low |-> resp.usd, volume |-> "0",
               source |-> "coinbase_gold", currency |-> "USD",
               commodity |-> "gold"])
    ELSE NoData

(* app/clients/polygon.py *)

PolygonBar(p) ==
    [c |-> p, o |-> "189.0", h |-> "191.5", l |-> "188.2", v |-> "52000000",
     t |-> "1700000000000"]

\* the fields of a result bar the adapter reads with result[...]
PolygonBarFields == {"c", "o", "h", "l", "v"}

\* a timeout, a connection error, a non-200 status, a 200 body that is no
\* JSON, whose status is not OK or that has no results, or a 200 body with a
\* result bar (whole, or with one field missing)
PolygonResponses ==
    {[kind |-> "timeout", bar |-> None],
     [kind |-> "connect", bar |-> None],
     [kind |-> "status", bar |-> None],
     [kind |-> "bad_json", bar |-> None],
     [kind |-> "not_ok", bar |-> None],
     [kind |-> "no_results", bar |-> None]}
    \cup {[kind |-> "bar", bar |-> PolygonBar(p)] : p \in Prices}
    \cup {[kind |-> "bar", bar |-> Without(PolygonBar(p), f)] :
              p \in Prices, f \in PolygonBarFields \cup {"t"}}

\* get_ticker_data mutated: a non-200 status is raised as an error
PolygonClient_raise_for_status(symbol, resp) ==
    IF resp.kind \in {"timeout", "connect", "bad_json", "status"}
    THEN _handle_error("Polygon.io")
    ELSE IF resp.kind = "bar"
    THEN IF PolygonBarFields \subseteq DOMAIN resp.bar
         THEN Data([symbol |-> upper(symbol), price |-> resp.bar["c"],
                    open |-> resp.bar["o"], high |-> resp.bar["h"],
                    low |-> resp.bar["l"], volume |-> resp.bar["v"],
                    source |-> "polygon_polygon.io",
                    timestamp |-> IF "t" \in DOMAIN resp.bar
                                  THEN resp.bar["t"] ELSE "0"])
         ELSE _handle_error("Polygon.io")
    ELSE NoData

\* get_ticker_data mutated: results[0] is read without the check that there
\* are results
PolygonClient_results_unchecked(symbol, resp) ==
    IF resp.kind \in {"timeout", "connect", "bad_json", "no_results"}
    THEN _handle_error("Polygon.io")
    ELSE IF resp.kind = "bar"
    THEN IF PolygonBarFields \subseteq DOMAIN resp.bar
         THEN Data([symbol |-> upper(symbol), price |-> resp.bar["c"],
                    open |-> resp.bar["o"], high |-> resp.bar["h"],
                    low |-> resp.bar["l"], volume |-> resp.bar["v"],
                    source |-> "polygon_polygon.io",
                    timestamp |-> IF "t" \in DOMAIN resp.bar
                                  THEN resp.bar["t"] ELSE "0"])
         ELSE _handle_error("Polygon.io")
    ELSE NoData

PolygonClient_get_ticker_data(symbol, resp) ==
    IF resp.kind \in {"timeout", "connect", "bad_json"}
    THEN _handle_error("Polygon.io")
    ELSE IF resp.kind = "bar"
    THEN IF PolygonBarFields \subseteq DOMAIN resp.bar
         THEN Data([symbol |-> upper(symbol), price |-> resp.bar["c"],
                    open |-> resp.bar["o"], high |-> resp.bar["h"],
                    low |-> resp.bar["l"], volume |-> resp.bar["v"],
                    source |-> "polygon_polygon.io",
                    timestamp |-> IF "t" \in DOMAIN resp.bar
                                  THEN resp.bar["t"] ELSE "0"])
         ELSE _handle_error("Polygon.io")   \* KeyError, wrapped
    ELSE NoData

(* app/clients/yfinance.py *)

YFinanceBar(p) ==
    [Close |-> p, Open |-> "189.0", High |-> "191.5", Low |-> "188.2",
     Volume |-> "52000000"]

\* an exception of the library, an empty history, or the latest daily bar
\* (whole, or with only Close)
YFinanceResponses ==
    {[kind |-> "exception", bar |-> None],
     [kind |-> "empty", bar |-> None]}
    \cup {[kind |-> "bar", bar |-> YFinanceBar(p)] : p \in Prices}
    \cup {[kind |-> "bar", bar |-> [Close |-> p]] : p \in Prices}

BarGet(bar, k, default) == IF k \in DOMAIN bar THEN bar[k] ELSE default

YFinanceClient_get_ticker_data(symbol, resp) ==
    IF resp.kind = "exception" THEN _handle_error("YFinance")
    ELSE IF resp.kind = "empty" THEN NoData
    ELSE Data([symbol |-> symbol, price |-> resp.bar["Close"],
               open |-> BarGet(resp.bar, "Open", resp.bar["Close"]),
               high |-> BarGet(resp.bar, "High", resp.bar["Close"]),
               low |-> BarGet(resp.bar, "Low", resp.bar["Close"]),
               volume |-> BarGet(resp.bar, "Volume", "0"),
               source |-> "yfinance"])

\* ticker.info: an exception, an empty dict, or a profile (whole or sparse)
YFinanceInfoResponses ==
    {[kind |-> "exception", info |-> None],
     [kind |-> "empty", info |-> None],
     [kind |-> "info",
      info |-> [longName |-> "Apple Inc.", industry |-> "Consumer Electronics",
                sector |-> "Technology", marketCap |-> "3000000000000",
                fullTimeEmployees |-> "164000", city |-> "Cupertino",
                state |-> "CA", country |-> "United States",
                website |-> "https://www.apple.com",
                currentPrice |-> "188.0"]],
     [kind |-> "info", info |-> [currentPrice |-> "188.0"]]}

YFinanceClient_get_ticker_info(symbol, resp) ==
    IF resp.kind = "exception" THEN _handle_error("YFinance")
    ELSE IF resp.kind = "empty" THEN NoData
    ELSE Data([symbol |-> symbol,
               long_name |-> BarGet(resp.info, "longName", upper(symbol) \o " Stock"),
               industry |-> BarGet(resp.info, "industry", "Unknown"),
               sector |-> BarGet(resp.info, "sector", "Unknown"),
               market_cap |-> BarGet(resp.info, "marketCap", "None"),
               employees |-> BarGet(resp.info, "fullTimeEmployees", "None"),
               city |-> BarGet(resp.info, "city", "None"),
               state |-> BarGet(resp.info, "state", "None"),
               country |-> BarGet(resp.info, "country", "None"),
               website |-> BarGet(resp.info, "website", "None"),
               currentPrice |-> BarGet(resp.info, "currentPrice", "None"),
               source |-> "yfinance_info"])

----------------------------------------------------------------------------
(* app/services/ticker.py *)

Procs == {1, 2}

\* the attributes TickerService.__init__ sets on self
TickerServiceAttrs ==
    {"cache", "ticker_mapping", "polygon_client", "coinbase_client",
     "yfinance_client"}

\* _resolve_symbol mutated: the alias table is looked up under the ticker as given
resolve_symbol_case_sensitive(ticker) ==
    IF ticker \in DOMAIN TICKER_MAPPING THEN TICKER_MAPPING[ticker] ELSE ticker

\* _resolve_symbol mutated: the ticker is used as given, the alias table not
\* consulted
resolve_symbol_unmapped(ticker) == ticker

\* self.ticker_mapping.get(ticker.lower(), ticker)
_resolve_symbol(ticker) ==
    IF lower(ticker) \in DOMAIN TICKER_MAPPING
    THEN TICKER_MAPPING[lower(ticker)]
    ELSE ticker

price_key(symbol) == "price_" \o symbol
info_key(symbol) == "info_" \o symbol

\* _get_price_data_sources mutated: the fallback is put before Polygon
get_price_data_sources_fallback_first(symbol) ==
    (IF upper(symbol) = "XAU" THEN <<"Coinbase">> ELSE <<>>)
    \o <<"YFinance">>
    \o (IF polygon_client THEN <<"Polygon">> ELSE <<>>)

_get_price_data_sources(symbol) ==
    (IF upper(symbol) = "XAU" THEN <<"Coinbase">> ELSE <<>>)
    \o (IF polygon_client THEN <<"Polygon">> ELSE <<>>)
    \o <<"YFinance">>

\* the fixed commodity record of _enhance_with_info
GoldInfo ==
    [long_name |-> "Gold Spot Price (XAU/USD)", industry |-> "Precious Metals",
     sector |-> "Commodities", market_cap |-> "None", employees |-> "None",
     city |-> "Global", state |-> "Global", country |-> "Global",
     website |-> "https://www.coinbase.com", commodity |-> "gold",
     currency_pair |-> "XAU/USD"]

\* the basic fallback record of _enhance_with_info
FallbackInfo(symbol) ==
    [long_name |-> upper(symbol) \o " Stock", industry |-> "Unknown",
     sector |-> "Unknown", market_cap |-> "None", employees |-> "None",
     city |-> "Unknown", state |-> "Unknown", country |-> "Unknown",
     website |-> "None"]

\* combined_data mutated: the info record is merged over the price data
Combine_info_over_price(info_data, price_data) ==
    Merge(Merge(price_data, info_data),
          [currentPrice |-> price_data["price"],
           source |-> price_data["source"] \o "_with_info"])

\* combined_data mutated: "currentPrice" is not set from the price data
Combine_no_current_price(info_data, price_data) ==
    Merge(Merge(info_data, price_data),
          [source |-> price_data["source"] \o "_with_info"])

\* combined_data mutated: the price is the profile's own currentPrice when it
\* has one
Combine_price_from_profile(info_data, price_data) ==
    Merge(Merge(info_data, price_data),
          [price |-> IF "currentPrice" \in DOMAIN info_data
                        /\ info_data["currentPrice"] # "None"
                     THEN info_data["currentPrice"] ELSE price_data["price"],
           currentPrice |-> price_data["price"],
           source |-> price_data["source"] \o "_with_info"])

\* combined_data = {**info_data, **price_data, "currentPrice": ..., "source": ...}
Combine(info_data, price_data) ==
    Merge(Merge(info_data, price_data),
          [currentPrice |-> price_data["price"],
           source |-> price_data["source"] \o "_with_info"])

\* the record returned by the except branch of _enhance_with_info
BasicInfo(symbol, price_data) ==
    Merge(price_data,
          [long_name |-> upper(symbol) \o " Stock", industry |-> "Unknown",
           sector |-> "Unknown", currentPrice |-> price_data["price"],
           source |-> price_data["source"] \o "_basic_info"])

\* _enhance_with_info mutated: no fallback record when get_ticker_info gives
\* nothing or raises
enhance_with_info_no_fallback(symbol, price_data, out) ==
    IF upper(symbol) = "XAU" THEN Combine(GoldInfo, price_data)
    ELSE Combine(out.data, price_data)

\* _enhance_with_info mutated: gold is treated like any other symbol
enhance_with_info_no_gold(symbol, price_data, out) ==
    IF out.kind = "error" THEN BasicInfo(symbol, price_data)
    ELSE IF Truthy(out.data) THEN Combine(out.data, price_data)
    ELSE Combine(FallbackInfo(symbol), price_data)

\* _enhance_with_info mutated: the info record is returned on its own
enhance_with_info_alone(symbol, price_data, out) ==
    IF upper(symbol) = "XAU" THEN GoldInfo
    ELSE IF Truthy(out.data) THEN out.data
    ELSE FallbackInfo(symbol)

\* _enhance_with_info, given what get_ticker_info ends in (not called for XAU)
_enhance_with_info(symbol, price_data, out) ==
    IF upper(symbol) = "XAU" THEN Combine(GoldInfo, price_data)
    ELSE IF out.kind = "error" THEN BasicInfo(symbol, price_data)
    ELSE IF Truthy(out.data) THEN Combine(out.data, price_data)
    ELSE Combine(FallbackInfo(symbol), price_data)

\* the message of the DataSourceUnavailableError
UnavailableMessage(symbol) ==
    "Unable to fetch price data for symbol '" \o symbol
        \o "': All data sources unavailable"

----------------------------------------------------------------------------
(* A request: the locals of one get_price_data / get_full_info coroutine,   *)
(* its position, and a record of what it has done so far                    *)

NoStep == [kind |-> "none", symbol |-> "", status |-> "", result |-> None]

IdleReq ==
    [pc |-> "idle", op |-> "none", ticker |-> "", symbol |-> "",
     data_sources |-> <<>>, idx |-> 0, price_data |-> None,
     status |-> "", result |-> None, message |-> "",
     \* the record
     called |-> <<>>, got |-> <<>>, writes |-> <<>>, reads |-> <<>>,
     info_calls |-> 0, price_hit |-> None, info_hit |-> None,
     upstream |-> <<>>, info_out |-> "", cache_errors |-> <<>>,
     answers |-> <<>>,
     \* the answer of the upstream that has arrived for the awaited call
     inflight |-> None]

Done(r, status, result, message) ==
    [r EXCEPT !.pc = "done", !.status = status, !.result = result,
              !.message = message]

StepOf(r) ==
    [kind |-> r.op, symbol |-> r.symbol, status |-> r.status,
     result |-> r.result]

OtherStep(kind) == [kind |-> kind, symbol |-> "", status |-> "", result |-> None]

\* CacheService.get / set, lines 48-50 and 60-62: the operation on the dict
\* raised, and the CacheError that is raised in its place
CacheErrorMessage(op, key) ==
    IF op = "get" THEN "Failed to retrieve cache entry: " \o key
    ELSE "Failed to set cache entry: " \o key

\* the request has had a CacheError raised at it by the cache
CacheRaised(r, op, key) ==
    [r EXCEPT !.cache_errors = Append(@, [op |-> op, key |-> key])]

\* a CacheError raised outside any try statement leaves the coroutine
CacheFailure(r, op, key) ==
    Done(CacheRaised(r, op, key), "CacheError", None, CacheErrorMessage(op, key))

\* get_price_data, lines 68-74: a truthy record was obtained (from the cache
\* or from an adapter); get_price_data returns TickerPriceResponse(**data),
\* and get_full_info goes on with its .dict()
PriceSuccess(r, data) ==
    IF r.op = "price"
    THEN Done(r, "ok", TickerPriceResponse(data), "")
    ELSE [r EXCEPT !.pc = "enhance", !.price_data = TickerPriceResponse(data)]

\* get_price_data mutated: the cache is not consulted
PriceLookup_no_cache(r, c, t) ==
    [r EXCEPT !.reads = Append(@, price_key(r.symbol)),
              !.data_sources = _get_price_data_sources(r.symbol),
              !.idx = 1, !.pc = "try"]

\* get_price_data mutated: called from get_full_info, it skips the cache
PriceLookup_info_refetch(r, c, t) ==
    LET cached_data == IF r.op = "info" THEN None
                       ELSE CacheGet(c, price_key(r.symbol), t)
        r1 == [r EXCEPT !.reads = Append(@, price_key(r.symbol)),
                        !.price_hit = cached_data]
    IN  IF Truthy(cached_data)
        THEN PriceSuccess(r1, cached_data)
        ELSE [r1 EXCEPT !.data_sources = _get_price_data_sources(r.symbol),
                        !.idx = 1, !.pc = "try"]

\* get_price_data, lines 49-61: resolve, read the cache, and on a miss build
\* the provider list
PriceLookup(r, c, t) ==
    LET cached_data == CacheGet(c, price_key(r.symbol), t)
        r1 == [r EXCEPT !.reads = Append(@, price_key(r.symbol)),
                        !.price_hit = cached_data]
    IN  IF store_fails
        THEN CacheFailure([r EXCEPT !.reads = Append(@, price_key(r.symbol))],
                          "get", price_key(r.symbol))
        ELSE IF Truthy(cached_data) /\ ~QuoteValidates(cached_data)
        THEN Done(r1, "ValidationError", None, "")   \* line 56, outside any try
        ELSE IF Truthy(cached_data)
        THEN PriceSuccess(r1, cached_data)
        ELSE [r1 EXCEPT !.data_sources = _get_price_data_sources(r.symbol),
                        !.idx = 1, !.pc = "try"]

NewReq(op, ticker) ==
    [IdleReq EXCEPT !.op = op, !.ticker = ticker,
                    !.symbol = _resolve_symbol(ticker)]

\* the fetch times of the entries still in the store
StillHeld(f, c) == [k \in (DOMAIN f) \cap (DOMAIN c) |-> f[k]]

\* when the price now stored under key came from a provider (t for a price
\* that has just come)
FetchedAt(f, key, t) == IF key \in DOMAIN f THEN f[key] ELSE t

\* GET /price/{ticker}: get_price_data up to its return or first adapter call
StartPrice(p, ticker, limit) ==
    /\ running = 0
    /\ req[p].pc \in {"idle", "done"}
    /\ started < limit
    /\ LET r0 == NewReq("price", ticker)
           r1 == PriceLookup(r0, _cache, now)
       IN  /\ req' = [req EXCEPT ![p] = r1]
           /\ _cache' = IF store_fails THEN _cache
                        ELSE CacheAfterGet(_cache, price_key(r0.symbol), now)
           /\ running' = IF r1.pc = "done" THEN 0 ELSE p
           /\ lastStep' = IF r1.pc = "done" THEN StepOf(r1) ELSE OtherStep("step")
    /\ fetched' = StillHeld(fetched, _cache')
    /\ started' = started + 1
    /\ UNCHANGED <<lastCall, store_fails, lastResponse, legacy, now, ticks, lastCacheOp, stored, polygon_api_key>>

\* GET /{ticker}: get_full_info up to its return, or into the get_price_data
\* it calls (lines 90-103)
StartInfo(p, ticker, limit) ==
    /\ running = 0
    /\ req[p].pc \in {"idle", "done"}
    /\ started < limit
    /\ LET r0 == NewReq("info", ticker)
           cached_data == CacheGet(_cache, info_key(r0.symbol), now)
           c1 == CacheAfterGet(_cache, info_key(r0.symbol), now)
           r1 == [r0 EXCEPT !.reads = Append(@, info_key(r0.symbol)),
                            !.info_hit = cached_data]
           r2 == IF store_fails
                 THEN CacheFailure(
                          [r0 EXCEPT !.reads = Append(@, info_key(r0.symbol))],
                          "get", info_key(r0.symbol))
                 ELSE IF Truthy(cached_data)
                 THEN Done(r1, "ok", TickerInfoResponse(cached_data), "")
                 ELSE PriceLookup(r1, c1, now)
       IN  /\ req' = [req EXCEPT ![p] = r2]
           /\ _cache' = IF store_fails THEN _cache
                        ELSE IF Truthy(cached_data) THEN c1
                        ELSE CacheAfterGet(c1, price_key(r0.symbol), now)
           /\ running' = IF r2.pc = "done" THEN 0 ELSE p
           /\ lastStep' = IF r2.pc = "done" THEN StepOf(r2) ELSE OtherStep("step")
    /\ fetched' = StillHeld(fetched, _cache')
    /\ started' = started + 1
    /\ UNCHANGED <<lastCall, store_fails, lastResponse, legacy, now, ticks, lastCacheOp, stored, polygon_api_key>>

\* whether the adapter call awaits the network (httpx) or runs through
\* without yielding (Coinbase's short-circuit, the blocking yfinance library)
Suspends(name, symbol) ==
    \/ name = "Polygon" /\ polygon_api_key # ""
    \/ name = "Coinbase" /\ upper(symbol) = "XAU"

\* what the upstream of an adapter answers in the service's runs: one answer
\* for each way the adapter can end, and each price
Responses(name) ==
    CASE name = "Coinbase" ->
           {r \in CoinbaseResponses : r.kind \in {"timeout", "body"}}
      [] name = "Polygon" ->
           {r \in PolygonResponses :
               r.kind \in {"timeout", "status"}
               \/ (r.kind = "bar" /\ {"o", "t"} \subseteq DOMAIN r.bar)}
      [] OTHER ->
           {r \in YFinanceResponses :
               r.kind # "bar" \/ "Open" \in DOMAIN r.bar}

InfoResponses ==
    {r \in YFinanceInfoResponses : r.kind # "info" \/ "longName" \in DOMAIN r.info}

\* source_func(symbol)
AdapterCall(name, symbol, resp) ==
    CASE name = "Coinbase" -> CoinbaseClient_get_ticker_data(symbol, resp)
      [] name = "Polygon"  -> PolygonClient_get_ticker_data(symbol, resp)
      [] OTHER             -> YFinanceClient_get_ticker_data(symbol, resp)

\* the loop body mutated: an ExternalAPIError ends the request
AfterAdapter_error_fatal(r, out) ==
    LET r1 == [r EXCEPT !.got = Append(@, [kind |-> out.kind, data |-> out.data])]
    IN  IF Truthy(out.data)
        THEN PriceSuccess(
                 [r1 EXCEPT !.writes = Append(@, [key |-> price_key(r.symbol),
                                                  data |-> out.data])],
                 out.data)
        ELSE IF r.idx < Len(r.data_sources) /\ out.kind # "error"
        THEN [r1 EXCEPT !.idx = @ + 1, !.pc = "try"]
        ELSE Done(r1, "DataSourceUnavailableError", None,
                  UnavailableMessage(r.symbol))

\* the loop body mutated: the loop goes on after a record was obtained
AfterAdapter_no_break(r, out) ==
    LET r1 == [r EXCEPT !.got = Append(@, [kind |-> out.kind, data |-> out.data])]
        r2 == IF Truthy(out.data)
              THEN [r1 EXCEPT !.writes = Append(@, [key |-> price_key(r.symbol),
                                                    data |-> out.data])]
              ELSE r1
    IN  IF r.idx < Len(r.data_sources)
        THEN [r2 EXCEPT !.idx = @ + 1, !.pc = "try"]
        ELSE IF Truthy(out.data) THEN PriceSuccess(r2, out.data)
        ELSE Done(r2, "DataSourceUnavailableError", None,
                  UnavailableMessage(r.symbol))

\* the loop body mutated: the cache is written whatever the adapter gave
AfterAdapter_write_always(r, out) ==
    LET r1 == [r EXCEPT !.got = Append(@, [kind |-> out.kind, data |-> out.data]),
                        !.writes = Append(@, [key |-> price_key(r.symbol),
                                              data |-> out.data])]
    IN  IF Truthy(out.data)
        THEN PriceSuccess(r1, out.data)
        ELSE IF r.idx < Len(r.data_sources)
        THEN [r1 EXCEPT !.idx = @ + 1, !.pc = "try"]
        ELSE Done(r1, "DataSourceUnavailableError", None,
                  UnavailableMessage(r.symbol))

\* the loop body mutated: an exhausted list is gone through a second time
AfterAdapter_retry(r, out) ==
    LET r1 == [r EXCEPT !.got = Append(@, [kind |-> out.kind, data |-> out.data])]
    IN  IF Truthy(out.data)
        THEN PriceSuccess(
                 [r1 EXCEPT !.writes = Append(@, [key |-> price_key(r.symbol),
                                                  data |-> out.data])],
                 out.data)
        ELSE IF r.idx < Len(r.data_sources)
        THEN [r1 EXCEPT !.idx = @ + 1, !.pc = "try"]
        ELSE IF Len(r.called) <= Len(r.data_sources)
        THEN [r1 EXCEPT !.idx = 1, !.pc = "try"]
        ELSE Done(r1, "DataSourceUnavailableError", None,
                  UnavailableMessage(r.symbol))

\* the loop body mutated: an adapter that raised is called a second time
AfterAdapter_retry_failed(r, out) ==
    LET r1 == [r EXCEPT !.got = Append(@, [kind |-> out.kind, data |-> out.data])]
    IN  IF Truthy(out.data)
        THEN PriceSuccess(
                 [r1 EXCEPT !.writes = Append(@, [key |-> price_key(r.symbol),
                                                  data |-> out.data])],
                 out.data)
        ELSE IF out.kind = "error" /\ Len(r.called) = r.idx
        THEN [r1 EXCEPT !.pc = "try"]
        ELSE IF r.idx < Len(r.data_sources)
        THEN [r1 EXCEPT !.idx = @ + 1, !.pc = "try"]
        ELSE Done(r1, "DataSourceUnavailableError", None,
                  UnavailableMessage(r.symbol))

\* the loop body mutated: the error message tells how the last adapter ended
AfterAdapter_echo_cause(r, out) ==
    LET r1 == [r EXCEPT !.got = Append(@, [kind |-> out.kind, data |-> out.data])]
    IN  IF Truthy(out.data)
        THEN PriceSuccess(
                 [r1 EXCEPT !.writes = Append(@, [key |-> price_key(r.symbol),
                                                  data |-> out.data])],
                 out.data)
        ELSE IF r.idx < Len(r.data_sources)
        THEN [r1 EXCEPT !.idx = @ + 1, !.pc = "try"]
        ELSE Done(r1, "DataSourceUnavailableError", None,
                  UnavailableMessage(r.symbol) \o " (" \o out.kind \o ")")

\* the loop body mutated: an adapter that raised leaves an empty entry behind
AfterAdapter_write_on_error(r, out) ==
    LET r1 == [r EXCEPT !.got = Append(@, [kind |-> out.kind, data |-> out.data])]
        r2 == IF out.kind = "error"
              THEN [r1 EXCEPT !.writes = Append(@, [key |-> price_key(r.symbol),
                                                    data |-> None])]
              ELSE r1
    IN  IF Truthy(out.data)
        THEN PriceSuccess(
                 [r1 EXCEPT !.writes = Append(@, [key |-> price_key(r.symbol),
                                                  data |-> out.data])],
                 out.data)
        ELSE IF r.idx < Len(r.data_sources)
        THEN [r2 EXCEPT !.idx = @ + 1, !.pc = "try"]
        ELSE Done(r2, "DataSourceUnavailableError", None,
                  UnavailableMessage(r.symbol))

\* the loop body mutated: an ExternalAPIError is not caught
AfterAdapter_error_escapes(r, out) ==
    LET r1 == [r EXCEPT !.got = Append(@, [kind |-> out.kind, data |-> out.data])]
    IN  IF Truthy(out.data)
        THEN PriceSuccess(
                 [r1 EXCEPT !.writes = Append(@, [key |-> price_key(r.symbol),
                                                  data |-> out.data])],
                 out.data)
        ELSE IF out.kind = "error"
        THEN Done(r1, "ExternalAPIError", None, out.source)
        ELSE IF r.idx < Len(r.data_sources)
        THEN [r1 EXCEPT !.idx = @ + 1, !.pc = "try"]
        ELSE Done(r1, "DataSourceUnavailableError", None,
                  UnavailableMessage(r.symbol))

\* get_price_data, lines 63-86: the loop body once the adapter has returned
\* or raised: the request afterwards. cache.set (line 72) is inside the try:
\* the CacheError it raises is caught by `except Exception` (line 79), and
\* the loop continues. TickerPriceResponse(**data) (line 74) comes after the
\* write and is inside the try as well: when it does not validate, the
\* written record stays and the loop continues
AfterAdapter(r, out) ==
    LET r1 == [r EXCEPT !.got = Append(@, [kind |-> out.kind, data |-> out.data])]
        r2 == IF ~Truthy(out.data) THEN r1
              ELSE IF store_fails
              THEN CacheRaised(r1, "set", price_key(r.symbol))
              ELSE [r1 EXCEPT !.writes = Append(@, [key |-> price_key(r.symbol),
                                                    data |-> out.data])]
    IN  IF Truthy(out.data) /\ ~store_fails /\ QuoteValidates(out.data)
        THEN PriceSuccess(r2, out.data)
        ELSE IF r.idx < Len(r.data_sources)
        THEN [r2 EXCEPT !.idx = @ + 1, !.pc = "try"]
        ELSE Done(r2, "DataSourceUnavailableError", None,
                  UnavailableMessage(r.symbol))

\* the writes of a request applied to the store, oldest first
RECURSIVE ApplyWrites(_, _, _, _)
ApplyWrites(c, ws, from, t) ==
    IF from > Len(ws) THEN c
    ELSE ApplyWrites(CacheSet(c, ws[from].key, ws[from].data, t), ws, from + 1, t)

\* the loop body as a step of request p
Handle(p, r, out) ==
    LET r2 == AfterAdapter(r, out)
    IN  /\ req' = [req EXCEPT ![p] = [r2 EXCEPT !.inflight = None]]
        /\ _cache' = ApplyWrites(_cache, r2.writes, Len(r.writes) + 1, now)
        /\ fetched' = IF Len(r2.writes) > Len(r.writes)
                      THEN Merge(fetched,
                                 [k \in {price_key(r.symbol)} |->
                                     IF Truthy(r.inflight) THEN r.inflight.at
                                     ELSE now])
                      ELSE fetched
        /\ running' = IF r2.pc = "done" THEN 0 ELSE p
        /\ lastStep' = IF r2.pc = "done" THEN StepOf(r2) ELSE OtherStep("step")

\* the loop reaches data_sources[idx] and calls it
TryAdapter(p) ==
    /\ running = p
    /\ req[p].pc = "try"
    /\ LET r == req[p]
           name == r.data_sources[r.idx]
           r1 == [r EXCEPT !.called = Append(@, name)]
       IN  IF Suspends(name, r.symbol)
           THEN /\ req' = [req EXCEPT ![p] = [r1 EXCEPT !.pc = "await"]]
                /\ running' = 0
                /\ lastStep' = OtherStep("step")
                /\ UNCHANGED <<_cache, fetched>>
           ELSE \E resp \in Responses(name) :
                    Handle(p, [r1 EXCEPT !.upstream = Append(@, resp.kind),
                                         !.answers = Append(@, resp)],
                           AdapterCall(name, r.symbol, resp))
    /\ UNCHANGED <<lastCall, store_fails, lastResponse, legacy, now, ticks, lastCacheOp, stored, polygon_api_key, started>>

\* the awaited adapter call returns or raises
AdapterReturn(p) ==
    /\ running = 0
    /\ req[p].pc = "await"
    /\ LET r == req[p]
           name == r.data_sources[r.idx]
       IN  \E resp \in Responses(name) :
               Handle(p, [r EXCEPT !.upstream = Append(@, resp.kind),
                                   !.answers = Append(@, resp)],
                      AdapterCall(name, r.symbol, resp))
    /\ UNCHANGED <<lastCall, store_fails, lastResponse, legacy, now, ticks, lastCacheOp, stored, polygon_api_key, started>>

\* the answer to the awaited call arrives from the upstream; the coroutine is
\* resumed by the event loop later
UpstreamAnswers(p) ==
    /\ req[p].pc = "await"
    /\ ~Truthy(req[p].inflight)
    /\ \E resp \in Responses(req[p].data_sources[req[p].idx]) :
           req' = [req EXCEPT ![p].inflight = [resp |-> resp, at |-> now]]
    /\ lastStep' = OtherStep("answer")
    /\ UNCHANGED <<lastCall, store_fails, lastResponse, legacy, _cache, now, ticks, lastCacheOp, stored, polygon_api_key,
                 running, started, fetched>>

\* the event loop resumes the coroutine with the answer that has arrived
AdapterResume(p) ==
    /\ running = 0
    /\ req[p].pc = "await"
    /\ Truthy(req[p].inflight)
    /\ LET r == req[p]
           name == r.data_sources[r.idx]
           resp == r.inflight.resp
       IN  Handle(p, [r EXCEPT !.upstream = Append(@, resp.kind),
                               !.answers = Append(@, resp)],
                  AdapterCall(name, r.symbol, resp))
    /\ UNCHANGED <<lastCall, store_fails, lastResponse, legacy, now, ticks, lastCacheOp, stored, polygon_api_key, started>>

\* what the Polygon upstream answers when its bar is ill-typed: a timestamp
\* that is no number
PolygonIllTyped ==
    {[kind |-> "bar", bar |-> [PolygonBar(p) EXCEPT !["t"] = NotAnInt]] :
         p \in Prices}

\* the awaited Polygon call returns the record of an ill-typed bar
AdapterReturnIllTyped(p) ==
    /\ running = 0
    /\ req[p].pc = "await"
    /\ req[p].data_sources[req[p].idx] = "Polygon"
    /\ LET r == req[p]
       IN  \E resp \in PolygonIllTyped :
               Handle(p, [r EXCEPT !.upstream = Append(@, resp.kind),
                                   !.answers = Append(@, resp)],
                      AdapterCall("Polygon", r.symbol, resp))
    /\ UNCHANGED <<lastCall, store_fails, lastResponse, legacy, now, ticks, lastCacheOp, stored, polygon_api_key, started>>

\* get_full_info, lines 109-114
Enhance(p) ==
    /\ running = p
    /\ req[p].pc = "enhance"
    /\ LET r == req[p]
       IN  \E resp \in IF upper(r.symbol) = "XAU"
                       THEN {[kind |-> "empty", info |-> None]}
                       ELSE InfoResponses :
             LET out == YFinanceClient_get_ticker_info(r.symbol, resp)
                 info_data == _enhance_with_info(r.symbol, r.price_data, out)
                 r1 == [r EXCEPT
                          !.info_calls = IF upper(r.symbol) = "XAU" THEN @ ELSE @ + 1,
                          !.info_out = IF upper(r.symbol) = "XAU" THEN @ ELSE out.kind,
                          !.writes = Append(@, [key |-> info_key(r.symbol),
                                                data |-> info_data])]
                 r2 == IF store_fails
                       THEN CacheFailure([r1 EXCEPT !.writes = r.writes],
                                         "set", info_key(r.symbol))
                       ELSE Done(r1, "ok", TickerInfoResponse(info_data), "")
             IN  /\ req' = [req EXCEPT ![p] = r2]
                 /\ _cache' = IF store_fails THEN _cache
                              ELSE CacheSet(_cache, info_key(r.symbol),
                                            info_data, now)
                 /\ fetched' = IF store_fails THEN fetched
                               ELSE Merge(fetched,
                                          [k \in {info_key(r.symbol)} |->
                                              FetchedAt(fetched, price_key(r.symbol), now)])
                 /\ lastStep' = StepOf(r2)
    /\ running' = 0
    /\ UNCHANGED <<lastCall, store_fails, lastResponse, legacy, now, ticks, lastCacheOp, stored, polygon_api_key, started>>

\* TickerService.clear_cache: self.cache_service is looked up on the service
clear_cache(c) ==
    IF "cache_service" \in TickerServiceAttrs
    THEN [cache |-> CacheClear(c), status |-> "ok"]
    ELSE [cache |-> c, status |-> "AttributeError"]

\* DELETE /cache
ClearCache ==
    /\ running = 0
    /\ _cache' = clear_cache(_cache).cache
    /\ lastStep' = [OtherStep("clear_cache") EXCEPT
                       !.status = clear_cache(_cache).status]
    /\ UNCHANGED <<lastCall, store_fails, lastResponse, legacy, now, ticks, lastCacheOp, stored, polygon_api_key,
                 req, running, started, fetched>>

\* the seconds by which the clock advances in one step
ServiceDeltas == {150}

Elapse ==
    /\ running = 0
    /\ ticks < MaxTicks
    /\ \E d \in ServiceDeltas : now' = now + d
    /\ ticks' = ticks + 1
    /\ lastStep' = OtherStep("elapse")
    /\ UNCHANGED <<lastCall, store_fails, lastResponse, legacy, _cache, lastCacheOp, stored, polygon_api_key,
                 req, running, started, fetched>>

NoCall ==
    [name |-> "", symbol |-> "", resp |-> [kind |-> ""], out |-> NoData,
     io |-> <<>>]

\* app/main.py at import: cache = {} and no call made
NoLegacy ==
    [cache |-> <<>>,
     last |-> [n |-> 0, symbol |-> "", hit |-> FALSE, data |-> None, at |-> 0,
               age |-> -1, cached_source |-> ""]]

NoResponse ==
    [endpoint |-> "", ticker |-> "", raised |-> "", message |-> "",
     status_code |-> 0, detail |-> ""]

NoCacheOp ==
    [n |-> 0, op |-> "none", key |-> "", data |-> None, result |-> None,
     branch |-> "", deleted |-> FALSE, at |-> 0,
     \* the keys the store held when the call was made, and those of them
     \* whose entry had expired
     held |-> {}, expired |-> {}]

Init ==
    /\ _cache = <<>>
    /\ now = 0
    /\ ticks = 0
    /\ lastCacheOp = NoCacheOp
    /\ stored = <<>>
    /\ polygon_api_key \in {"", "key"}
    /\ req = [p \in Procs |-> IdleReq]
    /\ running = 0
    /\ started = 0
    /\ lastStep = NoStep
    /\ lastCall = NoCall
    /\ store_fails = FALSE
    /\ lastResponse = NoResponse
    /\ legacy = NoLegacy
    /\ fetched = <<>>

\* one request, for every ticker, with and without a Polygon key
Next ==
    \/ \E t \in Tickers : StartPrice(1, t, MaxStarted)
    \/ \E t \in Tickers : StartInfo(1, t, MaxStarted)
    \/ TryAdapter(1)
    \/ AdapterReturn(1)
    \/ Enhance(1)

Spec == Init /\ [][Next]_vars

\* requests served one after the other, the clock advancing between them and
\* the cache cleared at will; no Polygon key
SeqTickers == {"gold", "XAU", "AAPL"}

InitSeq == Init /\ polygon_api_key = ""

\* the service with a Polygon key
InitKey == Init /\ polygon_api_key # ""

NextSeq ==
    \/ \E t \in SeqTickers : StartPrice(1, t, MaxSeqStarted)
    \/ \E t \in SeqTickers : StartInfo(1, t, MaxSeqStarted)
    \/ TryAdapter(1)
    \/ AdapterReturn(1)
    \/ Enhance(1)
    \/ ClearCache
    \/ Elapse

SpecSeq == InitSeq /\ [][NextSeq]_vars

\* the dict behind the cache starts, or stops, raising on every operation
\* (CacheService turns what it raises into a CacheError)
StoreBreaks ==
    /\ ~store_fails
    /\ store_fails' = TRUE
    /\ UNCHANGED <<cacheVars, polygon_api_key, req, running, started, lastStep,
                   lastCall, lastResponse, legacy, fetched>>

StoreRecovers ==
    /\ store_fails
    /\ store_fails' = FALSE
    /\ UNCHANGED <<cacheVars, polygon_api_key, req, running, started, lastStep,
                   lastCall, lastResponse, legacy, fetched>>

\* one request, the cache failing and recovering at any moment of it
NextFault ==
    \/ \E t \in SeqTickers : StartPrice(1, t, MaxStarted)
    \/ \E t \in SeqTickers : StartInfo(1, t, MaxStarted)
    \/ TryAdapter(1)
    \/ AdapterReturn(1)
    \/ Enhance(1)
    \/ StoreBreaks
    \/ StoreRecovers

SpecFault == Init /\ [][NextFault]_vars

\* requests one after the other under the names gold goes by
AliasTickers == {"gold", "GOLD", "XAU", "xau"}

NextAlias ==
    \/ \E t \in AliasTickers : StartPrice(1, t, MaxSeqStarted)
    \/ \E t \in AliasTickers : StartInfo(1, t, MaxSeqStarted)
    \/ TryAdapter(1)
    \/ AdapterReturn(1)
    \/ Enhance(1)
    \/ Elapse

SpecAlias == InitSeq /\ [][NextAlias]_vars

\* requests for one symbol, one after the other over a longer time, with a
\* Polygon key: the clock advances by just under or exactly the lifetime of
\* an entry
MaxDriftStarted == 3

DriftTickers == {"AAPL"}

DriftDeltas == {ttl_seconds - 1, ttl_seconds}

ElapseDrift ==
    /\ running = 0
    /\ ticks < MaxTicks
    /\ \E d \in DriftDeltas : now' = now + d
    /\ ticks' = ticks + 1
    /\ lastStep' = OtherStep("elapse")
    /\ UNCHANGED <<lastCall, store_fails, lastResponse, legacy, _cache, lastCacheOp, stored, polygon_api_key,
                 req, running, started, fetched>>

NextDrift ==
    \/ \E t \in DriftTickers : StartPrice(1, t, MaxDriftStarted)
    \/ \E t \in DriftTickers : StartInfo(1, t, MaxDriftStarted)
    \/ TryAdapter(1)
    \/ AdapterReturn(1)
    \/ Enhance(1)
    \/ ElapseDrift

SpecDrift == InitKey /\ [][NextDrift]_vars

IllTypedTickers == {"XAU", "AAPL"}

\* requests one after the other, with a Polygon key, the upstream of Polygon
\* answering with ill-typed bars as well
NextIllTyped ==
    \/ \E t \in IllTypedTickers : StartPrice(1, t, MaxSeqStarted)
    \/ \E t \in IllTypedTickers : StartInfo(1, t, MaxSeqStarted)
    \/ TryAdapter(1)
    \/ AdapterReturn(1)
    \/ AdapterReturnIllTyped(1)
    \/ Enhance(1)

SpecIllTyped == InitKey /\ [][NextIllTyped]_vars

\* requests one after the other, whatever the upstreams answer and with the
\* cache failing and recovering at any moment. An awaited adapter call
\* eventually returns or raises, and the event loop eventually runs a
\* coroutine that is ready to go on
AdapterEnds(p) == AdapterReturn(p) \/ AdapterReturnIllTyped(p)

NextLive ==
    \/ \E t \in IllTypedTickers : StartPrice(1, t, MaxSeqStarted)
    \/ \E t \in IllTypedTickers : StartInfo(1, t, MaxSeqStarted)
    \/ TryAdapter(1)
    \/ AdapterReturn(1)
    \/ AdapterReturnIllTyped(1)
    \/ Enhance(1)
    \/ StoreBreaks
    \/ StoreRecovers

SpecLive ==
    /\ InitKey
    /\ [][NextLive]_vars
    /\ WF_vars(TryAdapter(1))
    /\ WF_vars(AdapterEnds(1))
    /\ WF_vars(Enhance(1))

\* two get_price_data coroutines on the one event loop, each running from one
\* await to the next; the clock stands still
MaxConcStarted == 2

ConcTickers == {"gold", "AAPL"}

NextConc ==
    \/ \E p \in Procs, t \in ConcTickers : StartPrice(p, t, MaxConcStarted)
    \/ \E p \in Procs : TryAdapter(p)
    \/ \E p \in Procs : AdapterReturn(p)

SpecConc == Init /\ [][NextConc]_vars

\* CacheService.clear() called while get_price_data coroutines are in flight
MaxClears == 1

MaxClearStarted == 2

ClearTickers == {"gold"}

ClearWhileServing ==
    /\ running = 0
    /\ lastCacheOp.n < MaxClears
    /\ _cache' = CacheClear(_cache)
    /\ lastCacheOp' = [NoCacheOp EXCEPT !.n = lastCacheOp.n + 1, !.op = "clear",
                                       !.at = now, !.held = DOMAIN _cache]
    /\ stored' = <<>>
    /\ fetched' = <<>>
    /\ lastStep' = OtherStep("clear")
    /\ UNCHANGED <<lastCall, store_fails, lastResponse, legacy, now, ticks, polygon_api_key,
                 req, running, started>>

NextClear ==
    \/ \E p \in Procs : \E t \in ClearTickers : StartPrice(p, t, MaxClearStarted)
    \/ \E p \in Procs : TryAdapter(p)
    \/ \E p \in Procs : UpstreamAnswers(p)
    \/ \E p \in Procs : AdapterResume(p)
    \/ ClearWhileServing
    \/ Elapse

SpecClear == InitSeq /\ [][NextClear]_vars

----------------------------------------------------------------------------
(* The cache on its own: any sequence of get, set, delete, clear and        *)
(* passage of time                                                          *)

CacheKeys == {price_key("AAPL"), info_key("AAPL")}

CacheValues == {[price |-> p] : p \in Prices} \cup {None}

\* the seconds by which the clock advances in one step
CacheDeltas == {1, 299}

CacheOp(op, key) ==
    [NoCacheOp EXCEPT !.n = lastCacheOp.n + 1, !.op = op, !.key = key, !.at = now,
                      !.held = DOMAIN _cache,
                      !.expired = {k \in DOMAIN _cache : ~_is_valid(_cache[k], now)}]

DoGet(key) ==
    /\ lastCacheOp.n < MaxCacheOps
    /\ _cache' = CacheAfterGet(_cache, key, now)
    /\ lastCacheOp' = [CacheOp("get", key) EXCEPT
                          !.result = CacheGet(_cache, key, now),
                          !.branch = CacheGetBranch(_cache, key, now)]
    /\ UNCHANGED <<now, ticks, stored, serviceVars>>

DoSet(key, data) ==
    /\ lastCacheOp.n < MaxCacheOps
    /\ _cache' = CacheSet(_cache, key, data, now)
    /\ lastCacheOp' = [CacheOp("set", key) EXCEPT !.data = data]
    /\ stored' = [k \in (DOMAIN stored) \cup {key} |->
                     IF k = key THEN [data |-> data, at |-> now] ELSE stored[k]]
    /\ UNCHANGED <<now, ticks, serviceVars>>

DoDelete(key) ==
    /\ lastCacheOp.n < MaxCacheOps
    /\ _cache' = CacheDelete(_cache, key)
    /\ lastCacheOp' = [CacheOp("delete", key) EXCEPT
                          !.deleted = CacheDeleteResult(_cache, key)]
    /\ stored' = Without(stored, key)
    /\ UNCHANGED <<now, ticks, serviceVars>>

DoClear ==
    /\ lastCacheOp.n < MaxCacheOps
    /\ _cache' = CacheClear(_cache)
    /\ lastCacheOp' = CacheOp("clear", "")
    /\ stored' = <<>>
    /\ UNCHANGED <<now, ticks, serviceVars>>

Tick ==
    /\ ticks < MaxTicks
    /\ \E d \in CacheDeltas : now' = now + d
    /\ ticks' = ticks + 1
    /\ UNCHANGED <<_cache, lastCacheOp, stored, serviceVars>>

NextCache ==
    \/ \E k \in CacheKeys : DoGet(k)
    \/ \E k \in CacheKeys, v \in CacheValues : DoSet(k, v)
    \/ \E k \in CacheKeys : DoDelete(k)
    \/ DoClear
    \/ Tick

SpecCache == InitSeq /\ [][NextCache]_vars

----------------------------------------------------------------------------
(* The adapters on their own: each operation called with any symbol, against *)
(* every answer of its upstream                                              *)

\* PolygonClient.get_ticker_data from its first line: without a key it
\* returns None before anything else
PolygonClient_call(api_key, symbol, resp) ==
    IF api_key = "" THEN NoData ELSE PolygonClient_get_ticker_data(symbol, resp)

\* the call as lastCall records it
Called(name, symbol, resp, out, io) ==
    [name |-> name, symbol |-> symbol, resp |-> resp, out |-> out, io |-> io]

\* what a call does to reach its upstream, in order: the httpx client
\* obtained (created on first use) and the GET awaited, or the yfinance
\* library queried

\* CoinbaseClient.get_ticker_data mutated: the client is obtained before the
\* symbol is looked at
CoinbaseClient_io_client_first(symbol) ==
    IF upper(symbol) # "XAU" THEN <<"_get_client">>
    ELSE <<"_get_client", "client.get">>

\* CoinbaseClient.get_ticker_data, lines 26-37
CoinbaseClient_io(symbol) ==
    IF upper(symbol) # "XAU" THEN <<>> ELSE <<"_get_client", "client.get">>

\* PolygonClient.get_ticker_data, lines 28-40
PolygonClient_io(api_key, symbol) ==
    IF api_key = "" THEN <<>> ELSE <<"_get_client", "client.get">>

\* YFinanceClient.get_ticker_data, lines 26-27, and get_ticker_info, 63-64
YFinanceClient_io(operation) ==
    IF operation = "get_ticker_info" THEN <<"yf.Ticker", "ticker.info">>
    ELSE <<"yf.Ticker", "ticker.history">>

CallCoinbase(symbol, resp) ==
    /\ lastCall' = Called("Coinbase", symbol, resp,
                          CoinbaseClient_get_ticker_data(symbol, resp),
                          CoinbaseClient_io(symbol))
    /\ UNCHANGED <<cacheVars, polygon_api_key, req, running, started, lastStep,
                 store_fails, lastResponse, legacy, fetched>>

CallPolygon(symbol, resp) ==
    /\ lastCall' = Called("Polygon", symbol, resp,
                          PolygonClient_call(polygon_api_key, symbol, resp),
                          PolygonClient_io(polygon_api_key, symbol))
    /\ UNCHANGED <<cacheVars, polygon_api_key, req, running, started, lastStep,
                 store_fails, lastResponse, legacy, fetched>>

CallYFinance(symbol, resp) ==
    /\ lastCall' = Called("YFinance", symbol, resp,
                          YFinanceClient_get_ticker_data(symbol, resp),
                          YFinanceClient_io("get_ticker_data"))
    /\ UNCHANGED <<cacheVars, polygon_api_key, req, running, started, lastStep,
                 store_fails, lastResponse, legacy, fetched>>

CallYFinanceInfo(symbol, resp) ==
    /\ lastCall' = Called("YFinanceInfo", symbol, resp,
                          YFinanceClient_get_ticker_info(symbol, resp),
                          YFinanceClient_io("get_ticker_info"))
    /\ UNCHANGED <<cacheVars, polygon_api_key, req, running, started, lastStep,
                 store_fails, lastResponse, legacy, fetched>>

NextAdapters ==
    \/ \E t \in Tickers, resp \in CoinbaseResponses : CallCoinbase(t, resp)
    \/ \E t \in Tickers, resp \in PolygonResponses : CallPolygon(t, resp)
    \/ \E t \in Tickers, resp \in YFinanceResponses : CallYFinance(t, resp)
    \/ \E t \in Tickers, resp \in YFinanceInfoResponses : CallYFinanceInfo(t, resp)

SpecAdapters == Init /\ [][NextAdapters]_vars

----------------------------------------------------------------------------
(* app/api/v1/endpoints/tickers.py: the route handlers on their own, each     *)
(* handed every way the service call can end                                  *)

\* app/core/exceptions.py: the class an exception class derives from
ExceptionBase(cls) ==
    CASE cls \in {"TickerNotFoundError", "DataSourceUnavailableError",
                  "RateLimitError", "InvalidTickerError", "CacheError",
                  "ExternalAPIError"} -> "TickerException"
      [] cls \in {"TickerException", "AttributeError"} -> "Exception"
      [] OTHER -> ""

RECURSIVE isinstance(_, _)
isinstance(cls, of) ==
    cls # "" /\ (cls = of \/ isinstance(ExceptionBase(cls), of))

Endpoints == {"get_ticker_price", "get_ticker_info", "get_ticker_price_plain"}

\* except <catches> as e: raise HTTPException(status_code, detail)
Handler(catches, status_code, detail) ==
    [catches |-> catches, status_code |-> status_code, detail |-> detail]

\* the except clauses mutated: every endpoint has those of the plain one
ExceptClauses_no_503(endpoint) ==
    <<Handler("TickerNotFoundError", 404, "str(e)"),
      Handler("DataSourceUnavailableError", 500, "str(e)"),
      Handler("Exception", 500, "Internal server error")>>

\* the except clauses of an endpoint, in the order they are written
ExceptClauses(endpoint) ==
    IF endpoint = "get_ticker_price_plain"
    THEN <<Handler("TickerNotFoundError", 404, "str(e)"),
           Handler("DataSourceUnavailableError", 500, "str(e)"),
           Handler("Exception", 500, "Internal server error")>>
    ELSE <<Handler("TickerNotFoundError", 404, "str(e)"),
           Handler("DataSourceUnavailableError", 500, "str(e)"),
           Handler("ExternalAPIError", 503, "str(e)"),
           Handler("Exception", 500, "Internal server error")>>

\* the first except clause, from the i-th on, that catches the class
RECURSIVE FirstClause(_, _, _)
FirstClause(clauses, i, cls) ==
    IF i = Len(clauses) \/ isinstance(cls, clauses[i].catches) THEN clauses[i]
    ELSE FirstClause(clauses, i + 1, cls)

\* the HTTP response of an endpoint whose service call returned (raised = "")
\* or raised an exception of the class, with the message
endpoint_response(endpoint, raised, message) ==
    IF raised = "" THEN [status_code |-> 200, detail |-> ""]
    ELSE LET h == FirstClause(ExceptClauses(endpoint), 1, raised)
         IN  [status_code |-> h.status_code,
              detail |-> IF h.detail = "str(e)" THEN message ELSE h.detail]

\* what the service call hands the endpoint: a result, or an exception
Raised ==
    {"", "TickerNotFoundError", "DataSourceUnavailableError", "ExternalAPIError",
     "CacheError", "RateLimitError", "InvalidTickerError", "AttributeError"}

\* str(e) of the exception
ErrorMessage(raised, ticker) ==
    CASE raised = "" -> ""
      [] raised = "DataSourceUnavailableError" ->
           UnavailableMessage(_resolve_symbol(ticker))
      [] raised = "CacheError" ->
           CacheErrorMessage("get", price_key(_resolve_symbol(ticker)))
      [] raised = "ExternalAPIError" -> "API call failed"
      [] OTHER -> raised \o " for " \o ticker

CallEndpoint(endpoint, ticker, raised) ==
    /\ lastResponse' =
           [endpoint |-> endpoint, ticker |-> ticker, raised |-> raised,
            message |-> ErrorMessage(raised, ticker),
            status_code |->
                endpoint_response(endpoint, raised,
                                  ErrorMessage(raised, ticker)).status_code,
            detail |->
                endpoint_response(endpoint, raised,
                                  ErrorMessage(raised, ticker)).detail]
    /\ UNCHANGED <<cacheVars, polygon_api_key, req, running, started, lastStep,
                   lastCall, store_fails, legacy, fetched>>

NextEndpoints ==
    \E e \in Endpoints, t \in Tickers, x \in Raised : CallEndpoint(e, t, x)

SpecEndpoints == Init /\ [][NextEndpoints]_vars

----------------------------------------------------------------------------
(* app/main.py: the legacy path behind GET /ticket/price/{ticker}, with its    *)
(* own module-level cache                                                     *)

CACHE_TTL == 300

\* the time the comment above the mock branch gives for the mock quote
MOCK_SECONDS == 60

\* calls of get_ticker_price_data in a run of SpecLegacy
MaxLegacyCalls == 2

LegacyTickers == {"gold", "XAU", "AAPL"}

\* the seconds by which the clock advances in one step
LegacyDeltas == {61, 239}

\* ticker_dict.get(ticker, ticker)
ticker_dict_get(ticker) == IF ticker = "gold" THEN "XAU" ELSE ticker

is_cache_valid(cache_entry, t) ==
    /\ Truthy(cache_entry)
    /\ t - cache_entry.timestamp < CACHE_TTL

get_from_cache(c, key, t) ==
    IF key \in DOMAIN c /\ is_cache_valid(c[key], t) THEN c[key].data ELSE None

set_cache(c, key, data, t) ==
    [k \in (DOMAIN c) \cup {key} |->
        IF k = key THEN [data |-> data, timestamp |-> t] ELSE c[k]]

\* the real sources in the order get_ticker_price_data tries them, by the
\* source each puts in its record
RealSources(symbol) ==
    IF upper(symbol) = "XAU"
    THEN <<"coinbase_gold", "polygon_real", "finnhub_real", "alpha_vantage_real",
           "twelve_data_real", "yfinance_fallback">>
    ELSE <<"polygon_real", "finnhub_real", "alpha_vantage_real",
           "twelve_data_real", "yfinance_fallback">>

\* get_mock_data: the base price of the symbol and a random change
MockPrices(symbol) ==
    IF upper(symbol) = "AAPL" THEN {"188.51", "193.2"} ELSE {"98.4", "104.07"}

\* get_ticker_price_data: first is the place in the list of the first real
\* source with data (0: none has any), price the price it, or the mock,
\* gives; the result is the record returned and the cache afterwards
get_ticker_price_data(c, ticker_symbol, first, price, t) ==
    LET cache_key == "price_" \o ticker_symbol
        cached_data == get_from_cache(c, cache_key, t)
        data == [symbol |-> ticker_symbol, price |-> price,
                 source |-> IF first = 0 THEN "mock_data"
                            ELSE RealSources(ticker_symbol)[first]]
    IN  IF Truthy(cached_data)
        THEN [hit |-> TRUE, data |-> cached_data, cache |-> c]
        ELSE IF first > 0
        THEN [hit |-> FALSE, data |-> data,
              cache |-> set_cache(c, cache_key, data, t)]
        ELSE [hit |-> FALSE, data |-> data,
              cache |-> [k \in (DOMAIN c) \cup {cache_key} |->
                            IF k = cache_key
                            THEN [data |-> data, timestamp |-> t] ELSE c[k]]]

\* GET /ticket/price/{ticker}
read_ticket_price(ticker, first, price) ==
    /\ legacy.last.n < MaxLegacyCalls
    /\ first <= Len(RealSources(ticker_dict_get(ticker)))
    /\ price \in IF first = 0 THEN MockPrices(ticker_dict_get(ticker)) ELSE Prices
    /\ legacy' =
           LET symbol == ticker_dict_get(ticker)
               key == "price_" \o symbol
               res == get_ticker_price_data(legacy.cache, symbol, first, price, now)
           IN  [cache |-> res.cache,
                last |-> [n |-> legacy.last.n + 1, symbol |-> symbol,
                          hit |-> res.hit, data |-> res.data, at |-> now,
                          age |-> IF key \in DOMAIN legacy.cache
                                  THEN now - legacy.cache[key].timestamp ELSE -1,
                          cached_source |->
                              IF key \in DOMAIN legacy.cache
                              THEN legacy.cache[key].data.source ELSE ""]]
    /\ UNCHANGED <<cacheVars, polygon_api_key, req, running, started, lastStep,
                   lastCall, store_fails, lastResponse, fetched>>

LegacyTick ==
    /\ ticks < MaxTicks
    /\ \E d \in LegacyDeltas : now' = now + d
    /\ ticks' = ticks + 1
    /\ UNCHANGED <<_cache, lastCacheOp, stored, serviceVars>>

NextLegacy ==
    \/ \E t \in LegacyTickers, first \in 0..6 :
           \E price \in Prices \cup MockPrices(t) :
               read_ticket_price(t, first, price)
    \/ LegacyTick

SpecLegacy == InitSeq /\ [][NextLegacy]_vars

----------------------------------------------------------------------------
(* The claims *)

Range(seq) == {seq[i] : i \in 1..Len(seq)}

Unavailable == "DataSourceUnavailableError"

\* the request called adapters (it missed the cache) and has ended
Ended(r) == r.pc = "done" /\ r.called # <<>>

C2_AsStated ==
    \A p \in Procs :
        LET r == req[p]
            n == Len(r.data_sources)
        IN  n > 0 =>
              /\ ("Coinbase" \in Range(r.data_sources)) <=> (r.symbol = "XAU")
              /\ ("Polygon" \in Range(r.data_sources)) <=> (polygon_api_key # "")
              /\ r.data_sources[n] = "YFinance"

\* C2, amended: Coinbase is in the list, and first, iff the symbol upper-cased
\* is XAU; Polygon is in it, right before the last place, iff a key was
\* configured; YFinance is always last; nothing else and nothing twice. With
\* no key a non-gold request calls YFinance alone and its response carries
\* YFinance's price and source.
C2_ProviderList ==
    \A p \in Procs :
        LET r == req[p]
            n == Len(r.data_sources)
        IN  n > 0 =>
              /\ Range(r.data_sources) \subseteq {"Coinbase", "Polygon", "YFinance"}
              /\ Cardinality(Range(r.data_sources)) = n
              /\ ("Coinbase" \in Range(r.data_sources)) <=> (upper(r.symbol) = "XAU")
              /\ "Coinbase" \in Range(r.data_sources) => r.data_sources[1] = "Coinbase"
              /\ ("Polygon" \in Range(r.data_sources)) <=> (polygon_api_key # "")
              /\ "Polygon" \in Range(r.data_sources) => r.data_sources[n - 1] = "Polygon"
              /\ r.data_sources[n] = "YFinance"
              /\ (polygon_api_key = "" /\ upper(r.symbol) # "XAU") =>
                     /\ r.data_sources = <<"YFinance">>
                     /\ (r.op = "price" /\ r.status = "ok") =>
                            /\ r.called = <<"YFinance">>
                            /\ r.result["price"] = r.got[1].data["price"]
                            /\ r.result["source"] = "yfinance"

\* AAPL answered by YFinance alone, no key configured
C2_Witness ==
    /\ polygon_api_key = ""
    /\ req[1].op = "price" /\ req[1].ticker = "AAPL" /\ req[1].status = "ok"
    /\ req[1].called = <<"YFinance">>
    /\ req[1].result["price"] = "190.12"

AllOf(r, kinds) ==
    /\ r.data_sources # <<>>
    /\ Len(r.got) = Len(r.data_sources)
    /\ \A i \in 1..Len(r.got) : r.got[i].kind \in kinds

\* C4: a request whose every adapter returned no-data fails with
\* DataSourceUnavailableError, has set no key, and its last step leaves the
\* store as it was.
C4_AllNoDataNoWrite ==
    [][\A p \in Procs :
          (req[p].pc # "done" /\ AllOf(req'[p], {"none"})) =>
              /\ req'[p].pc = "done"
              /\ req'[p].status = Unavailable
              /\ req'[p].writes = <<>>
              /\ _cache' = _cache]_vars

\* three adapters, all no-data
C4_Witness ==
    /\ AllOf(req[1], {"none"})
    /\ Len(req[1].called) = 3
    /\ req[1].status = Unavailable
    /\ _cache = <<>>

Merged(r) == r.writes[Len(r.writes)].data

Built(r) ==
    /\ r.op = "info" /\ r.pc = "done" /\ r.status = "ok"
    /\ r.writes # <<>> /\ r.writes[Len(r.writes)].key = info_key(r.symbol)

\* C10 as stated: every field of the Quote is in the merged record with the
\* Quote's value.
C10_AsStated ==
    \A p \in Procs :
        Built(req[p]) =>
            \A f \in QuoteFields :
                f \in DOMAIN Merged(req[p]) /\ Merged(req[p])[f] = req[p].price_data[f]

\* C10, amended: every field of the Quote other than source is in the merged
\* record, and in the response, with the Quote's value, whatever the info
\* record holds under that name; source is the Quote's source with
\* "_with_info" (or, on the exception path, "_basic_info") appended.
C10_QuotePrecedence ==
    \A p \in Procs :
        LET r == req[p]
        IN  Built(r) =>
              /\ \A f \in QuoteFields \ {"source"} :
                     /\ f \in DOMAIN Merged(r)
                     /\ Merged(r)[f] = r.price_data[f]
                     /\ r.result[f] = r.price_data[f]
              /\ Merged(r)["source"] \in
                     {r.price_data["source"] \o "_with_info",
                      r.price_data["source"] \o "_basic_info"}
              /\ r.result["source"] = Merged(r)["source"]

\* a Polygon Quote for AAPL merged with a fetched profile for aapl
C10_Witness ==
    /\ Built(req[1])
    /\ req[1].ticker = "aapl"
    /\ req[1].price_data["symbol"] = "AAPL"
    /\ Merged(req[1])["long_name"] = "Apple Inc."
    /\ Merged(req[1])["source"] = "polygon_polygon.io_with_info"

\* the step starts a get_price_data for request p
StartsPrice(p) == started' = started + 1 /\ req'[p].op = "price"

ValidEntry(c, key, t) == key \in DOMAIN c /\ t - c[key].timestamp < ttl_seconds

C7_AsStated ==
    [][\A p \in Procs :
          (lastStep.kind = "clear_cache" /\ StartsPrice(p)) =>
              /\ ~Truthy(req'[p].price_hit)
              /\ req'[p].pc = "try"]_vars

----------------------------------------------------------------------------
(* The claims about the cache on its own *)

\* the step is a direct call of the cache operation op on key
CacheStep(op, key) ==
    /\ lastCacheOp'.n = lastCacheOp.n + 1
    /\ lastCacheOp'.op = op
    /\ lastCacheOp'.key = key

\* C6: whatever was set, got, deleted or cleared before and however much time
\* has passed, get(key) returns an entry iff the key was set, not deleted or
\* cleared since, and less than ttl seconds have passed since it was last
\* set; it then returns the value last set, and otherwise None.
C6_NeverPastTTL ==
    [][\A k \in CacheKeys :
          CacheStep("get", k) =>
              LET live == k \in DOMAIN stored /\ now - stored[k].at < ttl_seconds
              IN  /\ (lastCacheOp'.branch = "hit") <=> live
                  /\ lastCacheOp'.result = IF live THEN stored[k].data ELSE None]_vars

\* a get exactly ttl seconds after the set, refused
C6_Witness ==
    /\ lastCacheOp.op = "get"
    /\ lastCacheOp.key \in DOMAIN stored
    /\ lastCacheOp.at - stored[lastCacheOp.key].at = ttl_seconds
    /\ lastCacheOp.branch = "expired"

\* C8: set(key, v) followed, as the next call, by get(key) less than ttl
\* seconds later returns v.
C8_RoundTrip ==
    [][\A k \in CacheKeys :
          (lastCacheOp.op = "set" /\ lastCacheOp.key = k /\ CacheStep("get", k)
             /\ now - lastCacheOp.at < ttl_seconds) =>
              /\ lastCacheOp'.branch = "hit"
              /\ lastCacheOp'.result = lastCacheOp.data]_vars

\* a value got back 299 seconds after it replaced another
C8_Witness ==
    /\ lastCacheOp.op = "get" /\ lastCacheOp.branch = "hit"
    /\ lastCacheOp.n = 3
    /\ lastCacheOp.at - stored[lastCacheOp.key].at = 299
    /\ lastCacheOp.result = [price |-> "2031.5"]

\* C9: get(key) once ttl seconds have passed since the key was last set
\* returns None, leaves no entry under the key, and leaves every other entry
\* as it was.
C9_LazyEviction ==
    [][\A k \in CacheKeys :
          (CacheStep("get", k) /\ k \in DOMAIN stored
             /\ now - stored[k].at >= ttl_seconds) =>
              /\ lastCacheOp'.result = None
              /\ lastCacheOp'.branch # "hit"
              /\ k \notin DOMAIN _cache'
              /\ _cache' = Without(_cache, k)]_vars

\* an expired entry evicted by a get, the other key's entry still there
C9_Witness ==
    /\ lastCacheOp.op = "get" /\ lastCacheOp.branch = "expired"
    /\ lastCacheOp.key \notin DOMAIN _cache
    /\ DOMAIN _cache # {}

----------------------------------------------------------------------------
(* The claims about enrichment and resolution *)

\* the request is a get_full_info that has returned a record
Returned(r) == r.op = "info" /\ r.pc = "done" /\ r.status = "ok"

\* C11: every record get_full_info returns, built in this invocation (from
\* fetched info, the fallback record or the exception path) or read from the
\* info cache, has current_price equal to price; so has the merged record it
\* caches, under currentPrice.
C11_CurrentPriceIsPrice ==
    \A p \in Procs :
        LET r == req[p]
        IN  /\ Returned(r) => r.result["current_price"] = r.result["price"]
            /\ Built(r) => /\ Merged(r)["currentPrice"] = Merged(r)["price"]
                           /\ r.result["price"] = r.price_data["price"]
            /\ (Returned(r) /\ Truthy(r.info_hit)) =>
                   /\ r.result["price"] = r.info_hit["price"]
                   /\ r.result["current_price"] = r.info_hit["price"]

\* a record served from the info cache whose fetched profile quoted another
\* currentPrice than the Quote's price
C11_Witness ==
    /\ Returned(req[1]) /\ started = 2
    /\ Truthy(req[1].info_hit)
    /\ req[1].info_hit["long_name"] = "Apple Inc."
    /\ req[1].result["current_price"] = "190.12"

C13_InfoPropagatesUnavailable ==
    \A p \in Procs :
        LET r == req[p]
        IN  /\ (r.op = "info" /\ r.pc = "done" /\ r.status = Unavailable) =>
                   /\ r.called = r.data_sources
                   /\ r.info_calls = 0
                   /\ r.writes = <<>>
                   /\ info_key(r.symbol) \notin DOMAIN _cache
                   /\ r.result = None
            /\ (r.op = "info" /\ AllOf(r, {"none", "error"})) =>
                   r.pc = "done" /\ r.status = Unavailable

\* an info request for gold, all three adapters without a Quote
C13_Witness ==
    /\ req[1].op = "info" /\ req[1].status = Unavailable
    /\ req[1].called = <<"Coinbase", "Polygon", "YFinance">>
    /\ req[1].info_calls = 0
    /\ _cache = <<>>

\* the step starts a get_full_info for request p
StartsInfo(p) == started' = started + 1 /\ req'[p].op = "info"

\* C14: a get_full_info that finds no valid entry under its info key but a
\* valid one under the price key of the same symbol goes on to the enrichment
\* with that entry's Quote, and neither then nor later calls a price adapter.
C14_InfoReusesCachedQuote ==
    [][\A p \in Procs :
          LET r == req'[p]
          IN  /\ (StartsInfo(p)
                    /\ ~ValidEntry(_cache, info_key(r.symbol), now)
                    /\ ValidEntry(_cache, price_key(r.symbol), now)) =>
                     /\ r.pc = "enhance"
                     /\ r.price_data =
                            TickerPriceResponse(_cache[price_key(r.symbol)].data)
                     /\ r.called = <<>>
              /\ (r.op = "info" /\ Truthy(r.price_hit)) =>
                     r.called = <<>> /\ r.data_sources = <<>>]_vars

\* an info request after a price request for the same symbol, answered
\* without an adapter call
C14_Witness ==
    /\ Returned(req[1]) /\ started = 2
    /\ Truthy(req[1].price_hit) /\ ~Truthy(req[1].info_hit)
    /\ req[1].called = <<>>
    /\ req[1].result["source"] = "yfinance_with_info"

\* C15: a get_full_info for XAU never calls get_ticker_info, and the record
\* it builds holds the fixed commodity record.
C15_GoldInfoIsFixed ==
    \A p \in Procs :
        LET r == req[p]
        IN  /\ (r.op = "info" /\ r.symbol = "XAU") =>
                   r.info_calls = 0 /\ r.info_out = ""
            /\ (Built(r) /\ r.symbol = "XAU") =>
                   /\ r.result["long_name"] = "Gold Spot Price (XAU/USD)"
                   /\ r.result["industry"] = "Precious Metals"
                   /\ r.result["sector"] = "Commodities"
                   /\ r.result["commodity"] = "gold"
                   /\ r.result["currency_pair"] = "XAU/USD"
                   /\ r.result["website"] = "https://www.coinbase.com"
                   /\ r.result["market_cap"] = "None"

\* gold info built on a Quote from the fallback adapter
C15_Witness ==
    /\ Built(req[1]) /\ req[1].ticker = "Gold" /\ req[1].symbol = "XAU"
    /\ req[1].price_data["source"] = "yfinance"
    /\ req[1].result["commodity"] = "gold"

\* the ways of writing the alias gold that the tickers cover
GoldVariants == {"gold", "GOLD", "Gold"}

\* C16: the symbol a request works with is XAU when its ticker is gold
\* written in any case, and the ticker itself, unchanged, otherwise;
\* resolving changes nothing but the request's own symbol.
C16_ResolveSymbol ==
    \A p \in Procs :
        LET r == req[p]
        IN  r.op # "none" =>
              /\ r.ticker \in GoldVariants => r.symbol = "XAU"
              /\ r.ticker \notin GoldVariants => r.symbol = r.ticker

\* Gold resolved to XAU, and xau left as it is
C16_Witness ==
    \/ req[1].ticker = "Gold" /\ req[1].symbol = "XAU" /\ req[1].pc = "done"
           /\ req[1].status = "ok" /\ req[1].op = "price"
           /\ req[1].result["source"] = "coinbase_gold"

----------------------------------------------------------------------------
(* The claims about the adapters and about what leaves the pipeline *)

\* C17: when the Polygon upstream answers with a status other than 200, the
\* adapter's call yields no-data, not a failure, and the request goes on to
\* the adapter after Polygon (YFinance); it fails only if that one gives no
\* Quote either.
C17_PolygonStatusIsNoData ==
    \A p \in Procs :
        LET r == req[p]
        IN  \A i \in 1..Len(r.upstream) :
              (r.called[i] = "Polygon" /\ r.upstream[i] = "status") =>
                /\ r.got[i].kind = "none"
                /\ i < Len(r.data_sources)
                /\ r.data_sources[i + 1] = "YFinance"
                /\ \/ r.pc = "try" /\ r.idx = i + 1
                   \/ Len(r.called) = i + 1 /\ r.called[i + 1] = "YFinance"
                /\ r.status = Unavailable =>
                       /\ Len(r.got) = i + 1
                       /\ r.got[i + 1].kind \in {"none", "error"}

\* Polygon answered 429 for AAPL, and YFinance gave the Quote
C17_Witness ==
    /\ req[1].op = "price" /\ req[1].status = "ok" /\ req[1].symbol = "AAPL"
    /\ req[1].called = <<"Polygon", "YFinance">>
    /\ req[1].upstream[1] = "status" /\ req[1].got[1].kind = "none"
    /\ req[1].result["source"] = "yfinance"

\* the last call was made to the Polygon adapter, built with a key
PolygonCalled == lastCall.name = "Polygon" /\ polygon_api_key # ""

\* a 200 body whose result bar lacks one of the fields read with result[...]
BarIncomplete(resp) ==
    resp.kind = "bar" /\ ~(PolygonBarFields \subseteq DOMAIN resp.bar)

ClientName(name) ==
    CASE name = "Coinbase" -> "Coinbase"
      [] name = "Polygon"  -> "Polygon.io"
      [] OTHER             -> "YFinance"

\* the upstream answers on which the httpx call, response.json() or the
\* yfinance library raise
Raising == {"timeout", "connect", "bad_json", "exception"}

\* the call got as far as its upstream
ReachedUpstream ==
    CASE lastCall.name = "Coinbase" -> upper(lastCall.symbol) = "XAU"
      [] lastCall.name = "Polygon"  -> polygon_api_key # ""
      [] OTHER                      -> TRUE

\* C19: every adapter operation ends in a populated record, in None, or in an
\* ExternalAPIError whose source is the adapter's name, and in nothing else;
\* whenever the I/O or the parsing raised, it ends in that ExternalAPIError.
C19_AdapterOutcomes ==
    lastCall.name # "" =>
        LET out == lastCall.out
        IN  /\ out.kind \in {"data", "none", "error"}
            /\ out.kind = "data" =>
                   /\ Truthy(out.data)
                   /\ {"symbol", "source"} \subseteq DOMAIN out.data
            /\ out.kind = "none" => out.data = None
            /\ out.kind = "error" =>
                   /\ out.data = None
                   /\ out.source = ClientName(lastCall.name)
                   /\ ReachedUpstream
            /\ (ReachedUpstream /\ lastCall.resp.kind \in Raising) =>
                   /\ out.kind = "error"
                   /\ out.source = ClientName(lastCall.name)

\* a connection error of the Coinbase request, raised as the adapter's error
C19_Witness ==
    /\ lastCall.name = "Coinbase" /\ lastCall.symbol = "xau"
    /\ lastCall.resp.kind = "connect"
    /\ lastCall.out.kind = "error" /\ lastCall.out.source = "Coinbase"

C21_AsStated ==
    \A p \in Procs :
        req[p].cache_errors # <<>>
            => /\ req[p].pc = "done"
               /\ req[p].status = "CacheError"
               /\ Len(req[p].cache_errors) = 1

\* C22: within one get_price_data each adapter of the list is called at most
\* once, in the order of the list (an adapter that failed or had nothing is
\* not tried again), and within one get_full_info get_ticker_info is called
\* at most once; a get_price_data on its own never calls it.
C22_EachAdapterOnce ==
    \A p \in Procs :
        LET r == req[p]
        IN  /\ \A i, j \in 1..Len(r.called) : r.called[i] = r.called[j] => i = j
            /\ Len(r.called) <= Len(r.data_sources)
            /\ \A i \in 1..Len(r.called) : r.called[i] = r.data_sources[i]
            /\ Len(r.upstream) <= Len(r.called)
            /\ r.info_calls <= 1
            /\ r.op = "price" => r.info_calls = 0

\* an info request whose first adapter raised: it was called once, the second
\* gave the Quote, and get_ticker_info was called once
C22_Witness ==
    /\ req[1].op = "info" /\ req[1].pc = "done" /\ req[1].status = "ok"
    /\ req[1].called = <<"Polygon", "YFinance">>
    /\ req[1].got[1].kind = "error"
    /\ req[1].info_calls = 1

\* the step hands request p the Quote of an adapter
GivenQuote(p) ==
    /\ Len(req'[p].got) = Len(req[p].got) + 1
    /\ Truthy(req'[p].got[Len(req'[p].got)].data)

\* C23: with two get_price_data coroutines interleaved at their awaits, each
\* request an adapter hands a Quote returns that Quote, complete, and writes
\* it: right after the write the price entry is that Quote in full (the later
\* write replaces the earlier one whole), no other entry is touched, and the
\* cache changes in no other step.
C23_ConcurrentRequests ==
    [][/\ \A p \in Procs :
             LET r == req'[p]
                 data == r.got[Len(r.got)].data
             IN  GivenQuote(p) =>
                     /\ r.pc = "done" /\ r.status = "ok"
                     /\ DOMAIN r.result = QuoteFields
                     /\ r.result = TickerPriceResponse(data)
                     /\ price_key(r.symbol) \in DOMAIN _cache'
                     /\ _cache'[price_key(r.symbol)].data = data
                     /\ \A k \in DOMAIN _cache' \ {price_key(r.symbol)} :
                            k \in DOMAIN _cache /\ _cache'[k] = _cache[k]
       /\ (_cache' # _cache) => \E p \in Procs : GivenQuote(p)]_vars

\* two requests for the same symbol that both missed the cache, were both
\* handed a Quote by an adapter, at different prices, and both wrote it: the
\* entry is the Quote of the second request, which wrote last
C23_Witness ==
    /\ req[1].symbol = req[2].symbol
    /\ \A p \in Procs :
           /\ req[p].op = "price" /\ req[p].pc = "done" /\ req[p].status = "ok"
           /\ ~Truthy(req[p].price_hit)
           /\ Len(req[p].writes) = 1
    /\ req[1].result.price # req[2].result.price
    /\ _cache[price_key(req[2].symbol)].data = req[2].writes[1].data
    /\ _cache[price_key(req[1].symbol)].data # req[1].writes[1].data

\* C24: called with a symbol that is not XAU in any case, the Coinbase adapter
\* returns None, whatever its upstream would answer, having neither obtained
\* its HTTP client nor made a request, and raises nothing; a symbol that is
\* XAU up to case is not short-circuited.
C24_CoinbaseShortCircuit ==
    lastCall.name = "Coinbase" =>
        IF lastCall.symbol \in {"XAU", "xau"}
        THEN lastCall.io = <<"_get_client", "client.get">>
        ELSE /\ lastCall.out = NoData
             /\ lastCall.io = <<>>

\* the Coinbase adapter called with AAPL while its upstream would time out
C24_Witness ==
    /\ lastCall.name = "Coinbase" /\ lastCall.symbol = "AAPL"
    /\ lastCall.resp.kind = "timeout"
    /\ lastCall.out = NoData /\ lastCall.io = <<>>

\* C25: a price request for "gold" is resolved to XAU, and when Coinbase
\* answers with the USD rate p the request ends with a Quote of symbol XAU in
\* which price, open, high and low are all p and volume is 0.
C25_GoldScenario ==
    \A p \in Procs :
        LET r == req[p]
        IN  /\ (r.op = "price" /\ r.ticker = "gold") => r.symbol = "XAU"
            /\ (r.op = "price" /\ r.ticker = "gold" /\ Len(r.answers) >= 1
                   /\ r.answers[1].kind = "body" /\ r.answers[1].usd # "None") =>
                   /\ r.called = <<"Coinbase">>
                   /\ r.pc = "done" /\ r.status = "ok"
                   /\ r.result.symbol = "XAU"
                   /\ r.result.price = r.answers[1].usd
                   /\ r.result.open = r.result.price
                   /\ r.result.high = r.result.price
                   /\ r.result.low = r.result.price
                   /\ r.result.volume = "0"

\* the scenario of the specification: gold at 2031.5
C25_Witness ==
    /\ req[1].op = "price" /\ req[1].ticker = "gold" /\ req[1].status = "ok"
    /\ req[1].answers = <<[kind |-> "body", usd |-> "2031.5"]>>
    /\ req[1].result.symbol = "XAU"
    /\ req[1].result.price = "2031.5" /\ req[1].result.open = "2031.5"
    /\ req[1].result.volume = "0"

\* the field of the upstream bar from which an adapter takes open, high, low
BarField(name, f) ==
    IF name = "Polygon"
    THEN CASE f = "open" -> "o" [] f = "high" -> "h" [] OTHER -> "l"
    ELSE CASE f = "open" -> "Open" [] f = "high" -> "High" [] OTHER -> "Low"

\* C26, as stated: in a Quote produced by the Polygon or the YFinance adapter
\* each of open, high and low is the value the upstream bar reported, or is
\* absent when the bar lacks it; it is never filled in from the price.
C26_AsStated ==
    (lastCall.name \in {"Polygon", "YFinance"} /\ lastCall.out.kind = "data") =>
        \A f \in {"open", "high", "low"} :
            LET bar == lastCall.resp.bar
                data == lastCall.out.data
            IN  IF BarField(lastCall.name, f) \in DOMAIN bar
                THEN f \in DOMAIN data /\ data[f] = bar[BarField(lastCall.name, f)]
                ELSE f \notin DOMAIN data \/ data[f] = "None"

\* C27: the message of the DataSourceUnavailableError a request ends with is
\* a function of its symbol alone: the fixed text around the symbol, the same
\* whatever the adapters were, however each ended, whether a Polygon key is
\* set and whatever the upstreams answered.
C27_MessageNamesSymbolOnly ==
    \A p \in Procs :
        LET r == req[p]
        IN  (r.pc = "done" /\ r.status = Unavailable) =>
                r.message = "Unable to fetch price data for symbol '" \o r.symbol
                                \o "': All data sources unavailable"

\* a request for AAPL with a Polygon key set, Polygon timing out and the
\* yfinance library raising
C27_Witness ==
    /\ polygon_api_key # ""
    /\ req[1].pc = "done" /\ req[1].status = Unavailable
    /\ req[1].symbol = "AAPL"
    /\ req[1].upstream = <<"timeout", "exception">>
    /\ req[1].message =
           "Unable to fetch price data for symbol 'AAPL': All data sources unavailable"

\* C28: GET /price/{ticker} and GET /{ticker} answer 404 when the service
\* raises TickerNotFoundError, 500 when it raises DataSourceUnavailableError
\* and 503 when it raises ExternalAPIError, each with the message of the
\* exception as detail.
C28_StatusMapping ==
    lastResponse.endpoint \in {"get_ticker_price", "get_ticker_info"} =>
        /\ lastResponse.raised = "TickerNotFoundError" =>
               lastResponse.status_code = 404
        /\ lastResponse.raised = "DataSourceUnavailableError" =>
               lastResponse.status_code = 500
        /\ lastResponse.raised = "ExternalAPIError" =>
               lastResponse.status_code = 503
        /\ lastResponse.raised \in {"TickerNotFoundError", "ExternalAPIError",
                                    "DataSourceUnavailableError"} =>
               lastResponse.detail = lastResponse.message

\* GET /{ticker} whose service call raised ExternalAPIError
C28_Witness ==
    /\ lastResponse.endpoint = "get_ticker_info"
    /\ lastResponse.raised = "ExternalAPIError"
    /\ lastResponse.status_code = 503

\* the seconds after a set at which the validity of the entry is looked at
ProbeDeltas == {0, 1, ttl_seconds - 1, ttl_seconds, ttl_seconds + 1}

\* C29: set(key, v) leaves under key the entry (v, now) whatever was there
\* before, and touches no other entry; the entry is valid for exactly the
\* ttl seconds that follow this set, the same for every key.
C29_SetOverwrites ==
    [][\A k \in CacheKeys :
          CacheStep("set", k) =>
              /\ k \in DOMAIN _cache'
              /\ _cache'[k] = [data |-> lastCacheOp'.data, timestamp |-> now]
              /\ \A j \in DOMAIN _cache' \ {k} :
                     j \in DOMAIN _cache /\ _cache'[j] = _cache[j]
              /\ \A d \in ProbeDeltas :
                     _is_valid(_cache'[k], now + d) <=> d < ttl_seconds]_vars

\* a key set again 299 seconds after an earlier call had put an entry under
\* it: the entry carries the new value and the time of the second set
C29_Witness ==
    /\ lastCacheOp.op = "set" /\ lastCacheOp.key \in lastCacheOp.held
    /\ lastCacheOp.at = 299
    /\ _cache[lastCacheOp.key] =
           [data |-> [price |-> "2031.5"], timestamp |-> 299]

\* C30: clear() leaves the store empty whatever it held, valid entries and
\* expired ones alike, and nothing at all when it was empty already; the
\* store never holds a key that was not set since the last clear, and get(k)
\* of a key the store does not hold returns None.
C30_ClearEmpties ==
    /\ [][CacheStep("clear", "") => _cache' = <<>>]_vars
    /\ [][\A k \in CacheKeys :
             (CacheStep("get", k) /\ k \notin DOMAIN stored) =>
                 /\ lastCacheOp'.result = None
                 /\ lastCacheOp'.branch = "miss"]_vars
    /\ [](DOMAIN _cache \subseteq DOMAIN stored)

\* a clear of a store that held a valid entry and an expired one
C30_Witness ==
    /\ lastCacheOp.op = "clear"
    /\ lastCacheOp.held = CacheKeys
    /\ Cardinality(lastCacheOp.expired) = 1
    /\ _cache = <<>>

\* a clear of an empty store
C30_WitnessEmpty ==
    /\ lastCacheOp.op = "clear" /\ lastCacheOp.held = {} /\ lastCacheOp.n = 1
    /\ _cache = <<>>

\* the key an invocation reads first
OwnKey(r) == IF r.op = "info" THEN info_key(r.symbol) ELSE price_key(r.symbol)

\* the pipeline of the request has resolved: it holds a Quote, from the cache
\* or from an adapter
Resolved(r) ==
    \/ Truthy(r.price_hit)
    \/ r.got # <<>> /\ Truthy(r.got[Len(r.got)].data)

ResolvedSymbols == {_resolve_symbol(t) : t \in Tickers}

\* C32: every key of the cache is the price key or the info key of a resolved
\* symbol; an entry under a price key is a Quote, with symbol, price and
\* source and nothing of an info record; an entry under an info key is a
\* merged record, with the name fields of the info record and with price and
\* currentPrice, both the Quote's price. No entry is an info record alone.
C32_NoInfoRecordAlone ==
    \A k \in DOMAIN _cache :
        LET d == _cache[k].data
        IN  \E sym \in ResolvedSymbols :
                \/ /\ k = price_key(sym)
                   /\ {"symbol", "price", "source"} \subseteq DOMAIN d
                   /\ d["price"] \in Prices
                   /\ (DOMAIN d) \cap {"long_name", "currentPrice", "sector"} = {}
                \/ /\ k = info_key(sym)
                   /\ {"symbol", "price", "source", "currentPrice", "long_name"}
                          \subseteq DOMAIN d
                   /\ d["price"] \in Prices
                   /\ d["currentPrice"] = d["price"]

\* after an info request for gold: the Quote under price_XAU and the merged
\* record under info_XAU
C32_Witness ==
    /\ DOMAIN _cache = {"price_XAU", "info_XAU"}
    /\ _cache["info_XAU"].data["long_name"] = "Gold Spot Price (XAU/USD)"
    /\ _cache["info_XAU"].data["currentPrice"] = "2031.5"
    /\ _cache["price_XAU"].data["price"] = "2031.5"

\* C33, as stated: a legacy request that finds under its key a mock quote
\* stored more than 60 seconds and less than CACHE_TTL seconds before is not
\* given that cached quote.
C33_AsStated ==
    (legacy.last.n > 0 /\ legacy.last.cached_source = "mock_data"
       /\ legacy.last.age > MOCK_SECONDS /\ legacy.last.age < CACHE_TTL) =>
        ~legacy.last.hit

\* C34, as stated: a get_price_data writes the cache at most once, in the
\* step in which it returns, and what it writes is the Quote it returns; an
\* invocation that is still going through its adapters, or that has failed
\* with DataSourceUnavailableError, has written nothing.
C34_AsStated ==
    \A p \in Procs :
        LET r == req[p]
        IN  (r.op = "price" /\ r.writes # <<>>) =>
                /\ Len(r.writes) = 1
                /\ r.pc = "done" /\ r.status = "ok"
                /\ r.result = TickerPriceResponse(r.writes[1].data)

BothValid(s) ==
    /\ {price_key(s), info_key(s)} \subseteq DOMAIN _cache
    /\ _is_valid(_cache[price_key(s)], now)
    /\ _is_valid(_cache[info_key(s)], now)

DriftSymbols == {_resolve_symbol(t) : t \in DriftTickers}

\* C35, as stated: whenever the price entry and the info entry of a symbol
\* are both valid, the price in the info entry is the price in the price
\* entry.
C35_AsStated ==
    \A s \in DriftSymbols :
        BothValid(s) =>
            _cache[info_key(s)].data["price"] = _cache[price_key(s)].data["price"]

\* C35, amended: whenever the price entry and the info entry of a symbol are
\* both valid and the info entry was built from the Quote that the price
\* entry holds (the price has not been fetched again since), the price in the
\* info entry is the price in the price entry.
C35_SameQuoteSamePrice ==
    \A s \in DriftSymbols :
        (/\ BothValid(s)
         /\ {price_key(s), info_key(s)} \subseteq DOMAIN fetched
         /\ fetched[info_key(s)] = fetched[price_key(s)]) =>
            _cache[info_key(s)].data["price"] = _cache[price_key(s)].data["price"]

\* the info entry of AAPL was built, some time after the Quote was fetched,
\* from the Quote still held in the price entry, and both are valid
C35_Witness ==
    /\ BothValid("AAPL")
    /\ _cache["info_AAPL"].timestamp > _cache["price_AAPL"].timestamp
    /\ fetched["info_AAPL"] = fetched["price_AAPL"]
    /\ "long_name" \in DOMAIN _cache["info_AAPL"].data
    /\ _cache["info_AAPL"].data["price"] = _cache["price_AAPL"].data["price"]

\* this step ends a get_full_info in a response
InfoServed ==
    /\ started' # started \/ req'[1] # req[1]
    /\ req'[1].pc = "done" /\ req'[1].op = "info" /\ req'[1].status = "ok"

\* how long before this step the price of that response came from a provider
PriceAge == now' - fetched'[info_key(req'[1].symbol)]

ServedFromCache ==
    /\ started' # started
    /\ lastStep'.kind = "price" /\ lastStep'.status = "ok"

ServedKey == price_key(lastStep'.symbol)

\* C37, as stated: once clear() has returned, a get_price_data served from
\* the cache is not given a Quote that came from the provider before the
\* clear.
C37_AsStated ==
    [][(ServedFromCache /\ lastCacheOp.op = "clear") =>
           fetched'[ServedKey] >= lastCacheOp.at]_vars

\* C37, amended: once clear() has returned, a get_price_data served from the
\* cache is given a Quote that was stored after the clear, also when another
\* get_price_data for the symbol was suspended in its adapter call while the
\* clear ran.
C37_NoEntryFromBeforeClear ==
    [][(ServedFromCache /\ lastCacheOp.op = "clear") =>
           /\ ServedKey \in DOMAIN _cache'
           /\ _cache'[ServedKey].timestamp >= lastCacheOp.at
           /\ lastStep'.result = TickerPriceResponse(_cache'[ServedKey].data)]_vars

\* one get_price_data was suspended in Coinbase while clear() ran, the answer
\* having arrived before; it stored its Quote afterwards, and the next
\* get_price_data was served that Quote from the cache
C37_Witness ==
    /\ lastCacheOp.op = "clear"
    /\ "price_XAU" \in DOMAIN fetched /\ fetched["price_XAU"] < lastCacheOp.at
    /\ \E p, q \in Procs :
           /\ p # q
           /\ req[p].pc = "done" /\ req[p].called = <<"Coinbase">>
           /\ req[p].writes # <<>>
           /\ req[q].pc = "done" /\ req[q].status = "ok"
           /\ Truthy(req[q].price_hit)
           /\ req[q].price_hit = req[p].writes[1].data
    /\ "price_XAU" \in DOMAIN _cache
    /\ _cache["price_XAU"].timestamp >= lastCacheOp.at

\* the keys an invocation may read and write
OwnKeys(r) ==
    IF r.op = "price" THEN {price_key(r.symbol)}
    ELSE IF r.op = "info" THEN {price_key(r.symbol), info_key(r.symbol)}
    ELSE {}

\* the entry under k is not what it was: set, replaced or removed
EntryChanged(k) ==
    \/ k \in DOMAIN _cache /\ k \notin DOMAIN _cache'
    \/ k \notin DOMAIN _cache /\ k \in DOMAIN _cache'
    \/ k \in DOMAIN _cache /\ k \in DOMAIN _cache' /\ _cache'[k] # _cache[k]

\* C38: a get_price_data for symbol s reads only price_s and a step of it
\* changes no entry but the one under price_s; a get_full_info for s reads
\* and changes only the entries under price_s and info_s. Every other
\* entry, expired ones included, is left as it is.
C38_Frame ==
    /\ [](\A p \in Procs :
             \A i \in 1..Len(req[p].reads) : req[p].reads[i] \in OwnKeys(req[p]))
    /\ [][\A k \in (DOMAIN _cache) \cup (DOMAIN _cache') :
             EntryChanged(k) =>
                 \E p \in Procs : req'[p] # req[p] /\ k \in OwnKeys(req'[p])]_vars

\* a get_price_data for AAPL has stored its Quote while the entry of gold,
\* expired by then, is still in the store as it was written
C38_Witness ==
    /\ req[1].pc = "done" /\ req[1].op = "price" /\ req[1].symbol = "AAPL"
    /\ req[1].writes # <<>>
    /\ "price_AAPL" \in DOMAIN _cache /\ _cache["price_AAPL"].timestamp = now
    /\ "price_XAU" \in DOMAIN _cache
    /\ ~_is_valid(_cache["price_XAU"], now)

\* the tickers the alias table and the ticker itself take to XAU
GoldNames == {t \in AliasTickers : _resolve_symbol(t) = "XAU"}

\* C39: after a get_price_data("gold") that returned a Quote, and while the
\* entry is valid, a get_price_data for "GOLD" or "XAU" returns in its first
\* step, with no adapter called, the Quote held under price_XAU, which is the
\* Quote "gold" was given; and a get_full_info for any of these names reads
\* info_XAU, then price_XAU, and writes under no other keys.
C39_AliasesShareEntry ==
    /\ GoldNames = {"gold", "GOLD", "XAU"}
    /\ [][(/\ req[1].pc = "done" /\ req[1].op = "price"
           /\ req[1].ticker = "gold" /\ req[1].status = "ok"
           /\ "price_XAU" \in DOMAIN _cache
           /\ _is_valid(_cache["price_XAU"], now)
           /\ started' # started
           /\ req'[1].op = "price" /\ req'[1].ticker \in {"GOLD", "XAU"}) =>
              (/\ req'[1].pc = "done" /\ req'[1].status = "ok"
               /\ req'[1].called = <<>>
               /\ req'[1].result = req[1].result
               /\ req'[1].result = TickerPriceResponse(_cache["price_XAU"].data)
               /\ _cache' = _cache)]_vars
    /\ [](\A p \in Procs :
             (req[p].op = "info" /\ req[p].ticker \in GoldNames) =>
                 /\ req[p].reads \in {<<"info_XAU">>, <<"info_XAU", "price_XAU">>}
                 /\ \A i \in 1..Len(req[p].writes) :
                        req[p].writes[i].key \in {"info_XAU", "price_XAU"})

\* 150 seconds after the Quote of gold was stored, a get_price_data("GOLD")
\* has returned it from price_XAU without calling an adapter
C39_Witness ==
    /\ req[1].pc = "done" /\ req[1].op = "price" /\ req[1].ticker = "GOLD"
    /\ req[1].status = "ok" /\ req[1].called = <<>>
    /\ "price_XAU" \in DOMAIN _cache
    /\ now - _cache["price_XAU"].timestamp = 150
    /\ req[1].price_hit = _cache["price_XAU"].data
    /\ req[1].result = TickerPriceResponse(_cache["price_XAU"].data)

InFlight(p) == req[p].pc \notin {"idle", "done"}

\* the adapters called so far are the first of the list, each once, and the
\* list has at most three
OnePass(r) ==
    /\ Len(r.data_sources) <= 3
    /\ Len(r.called) <= Len(r.data_sources)
    /\ \A i \in 1..Len(r.called) : r.called[i] = r.data_sources[i]

\* C40, the part on termination: every invocation that has started ends,
\* after at most one pass over its adapters.
C40_Terminates ==
    /\ \A p \in Procs : InFlight(p) ~> (req[p].pc = "done")
    /\ [](\A p \in Procs : OnePass(req[p]))

\* C40, as stated: every invocation that has started ends, after at most one
\* pass over its at most three adapters, and a get_price_data ends in a
\* Quote, in DataSourceUnavailableError or in a cache error, nothing else.
C40_AsStated ==
    /\ \A p \in Procs : InFlight(p) ~> (req[p].pc = "done")
    /\ [](\A p \in Procs : OnePass(req[p]))
    /\ [](\A p \in Procs :
             (req[p].pc = "done" /\ req[p].op = "price") =>
                 req[p].status \in {"ok", Unavailable, "CacheError"})

====
